---- MODULE Spec2Model ----
(***************************************************************************)
(* Client-side UI orchestration layer of the Retrospxt Holdings website:   *)
(* modal manager (ModalsModule), mobile menu (MobileMenuModule) and form   *)
(* pipeline (FormsModule), on the browser's single-threaded event loop.    *)
(*                                                                         *)
(* One step of the model is one macrotask of the event loop: a DOM event   *)
(* with all its listeners, a timer callback or an animation-frame callback,*)
(* each followed by the promise continuations (microtasks) it releases.    *)
(* Handlers are operators from a world record to a world record, so that a *)
(* DOM event can run its listeners one after the other as the browser does.*)
(***************************************************************************)
EXTENDS Integers, Sequences, FiniteSets, TLC

\* ------------------------------------------------------------------------
\* Program constants (milliseconds)
\* ------------------------------------------------------------------------
ModalAnimationDuration == 300
MenuAnimationDuration == 300
Breakpoint == 768
SwipeThreshold == 50
ResizeDebounce == 100
MessageTimeout == 5000
AutoCloseDelay == 2000
InputDebounce == 300
NewsletterDelay == 1000
CommunityDelay == 1000
ConsultationDelay == 1500
ModuleRetryDelay == 100
FocusDelay == 100
NavbarScrollThreshold == 50
SectionOffset == 80
ProbePadding == 50
ThrottleLimit == 100
ParallaxBreakpoint == 768
AnimationDelay == 100
DemoConnectDelay == 1000
DemoMessageDelay == 2000
\* parallaxRate is -0.5: the offset is minus the scroll position over this
ParallaxDivisor == 2

\* ------------------------------------------------------------------------
\* Bounds of the model
\* ------------------------------------------------------------------------
\* callbacks that may be pending when a user event is taken
MaxPending == 3
\* submit events a form may receive while its submission is in flight
MaxDuplicates == 2
\* messages the transcript holds at most
MaxMessages == 2
MaxStarts == 2
\* requests that await sendMail at the same time
MaxInflight == 2

\* ------------------------------------------------------------------------
\* The document
\* ------------------------------------------------------------------------
Null == "null"
\* elements of class .modal present in the document
Modals == {"newsletter-modal", "community-modal"}
\* ids the [data-modal] triggers pass to open(); one of them has no element
TriggerIds == {"newsletter-modal", "consultation-modal", "community-modal"}
\* focusable elements of the page outside any modal
PageFocusables == {"btn-newsletter", "btn-community"}
\* first focusable element inside each modal (its close button)
FirstFocusable == ("newsletter-modal" :> "newsletter-close") @@
                  ("community-modal" :> "community-close")
\* the first .nav-link of the nav menu
FirstNavLink == "nav-link"
Focusables == PageFocusables \cup Modals \cup {FirstFocusable[m] : m \in Modals}
                  \cup {FirstNavLink}
\* forms of the document, the modal each lives in (Null: on the page itself)
Forms == {"newsletter-form", "community-form", "consultation-form"}
FormModal == ("newsletter-form" :> Null) @@
             ("community-form" :> "community-modal") @@
             ("consultation-form" :> Null)
\* the validated fields of each form
FormFields == ("newsletter-form" :> {"email"}) @@
              ("community-form" :> {"name", "email"}) @@
              ("consultation-form" :> {"name", "email", "phone", "message"})
\* field values are sequences of characters
EmptyValue == <<>>
ShortName == <<"T">>
GoodName == <<"T", "e", "s", "t">>
GoodEmail == <<"a", "@", "b", ".", "c", "o">>
BadEmail == <<"n", "o", "t", "-", "a", "n", "-", "e", "m", "a", "i", "l">>
GoodPhone == <<"+", "1", " ", "5", "5", "5", "-", "0", "1", "0", "0">>
BadPhone == <<"0", "1", "2">>
ShortMessage == <<"H", "i">>
GoodMessage == <<"P", "l", "e", "a", "s", "e", " ", "c", "a", "l", "l">>
\* a field the request body does not have (the value undefined)
Absent == <<"undefined">>
\* no request was handled yet
NoRequest == [name |-> Absent, email |-> Absent, aiExperience |-> Absent]
\* the bodies POST /api/community-join receives
JoinBodies == [name : {Absent, EmptyValue, GoodName},
               email : {Absent, EmptyValue, BadEmail, GoodEmail},
               aiExperience : {Absent, <<"n", "e", "w">>}]
\* the mail configurations of the environment (.env)
MailEnvs == {"gmail", "smtp", "none"}
\* what the user types into a field
TypedValues == [name |-> {EmptyValue, ShortName, GoodName},
                email |-> {EmptyValue, BadEmail, GoodEmail},
                phone |-> {EmptyValue, BadPhone, GoodPhone},
                message |-> {EmptyValue, ShortMessage, GoodMessage}]
\* viewport widths the window is resized to
Widths == {375, 1024}
\* the section[id] elements in document order, with offsetTop and
\* offsetHeight; a footer follows the last section
Sections == <<"home", "services", "about">>
SectionIds == {Sections[i] : i \in 1..Len(Sections)}
OffsetTop == [home |-> 0, services |-> 600, about |-> 1200]
OffsetHeight == [home |-> 600, services |-> 600, about |-> 600]
\* href of the .nav-link elements, one per section
SectionHref == [home |-> "#home", services |-> "#services", about |-> "#about"]
NavHrefs == {SectionHref[x] : x \in SectionIds}
\* selectors navigateTo is called with: the sections and the navbar element
NavTargets == NavHrefs \cup {"#navbar"}
\* selectors callers pass to navigateTo: one of them matches no element
NavSelectors == NavTargets \cup {"#missing"}
\* the controllers in the order initializeModules constructs them
ModuleOrder == <<"navigation", "scrollEffects", "animations", "modals",
                 "forms", "mobileMenu">>
AppModules == {ModuleOrder[i] : i \in 1..Len(ModuleOrder)}
\* the elements the scroll effects observe (app.elements.animateElements)
AnimateElements == {"service-card", "stat-card", "feature-item"}
\* scroll positions the window reports (even, so the parallax is whole)
ScrollPositions == {0, 20, 500, 700, 1300, 1700}
\* clientX of the touch points of a swipe on the nav menu
TouchXs == {40, 100}

VARIABLES
    modalState,       \* ModalsModule.state
    modalStyle,       \* modal.style of every modal
    modalAriaHidden,  \* aria-hidden of every modal
    menuState,        \* MobileMenuModule.state
    appState,         \* RetrospxtApp.state
    navMenuStyle,     \* navMenu.style
    navMenuAriaHidden,\* aria-hidden of the nav menu
    hamburger,        \* hamburger: class active, aria-expanded, aria-label
    overlay,          \* the .mobile-menu-overlay in the document (id 0: none)
    innerWidth,       \* window.innerWidth
    formsState,       \* FormsModule.state.submittingForms
    fieldValue,       \* value of every validated field of every form
    fieldError,       \* error node, error class and aria-invalid per field
    formMessage,      \* the .form-message banner of every form
    formControls,     \* submit button and inputs: disabled, button text
    bodyOverflow,     \* document.body.style.overflow
    activeElement,    \* document.activeElement
    timers,           \* pending setTimeout callbacks, in firing order
    frames,           \* pending requestAnimationFrame callbacks, in order
    dispatched,       \* custom events dispatched by the last step
    scrollY,          \* window.scrollY
    navState,         \* NavigationModule.state and the throttle's inThrottle
    navLinks,         \* class active and aria-current of every nav link
    navbar,           \* navbar: class scrolled
    scrollState,      \* ScrollEffectsModule.state
    parallax,         \* style.transform of the parallax element
    called,           \* history: the scroll computations run by the last step
    reveal,           \* the observed reveal elements: observation, styles, history
    setup,            \* the controllers setup() created, and the one that threw
    voice,            \* VapiIntegration: client, isCallActive, button and transcript
    server,           \* the mail server: transporter, requests awaiting sendMail, last response
    polling,          \* the controller that waits for the module scripts
    hist,             \* history: focus seen when open() was called/recorded,
                      \* form of the last submit event, submit events
                      \* received by a form while its submission is in flight
    lastEvent         \* the macrotask that made the last step

vars == <<modalState, modalStyle, modalAriaHidden, menuState, appState,
          navMenuStyle, navMenuAriaHidden, hamburger, overlay, innerWidth,
          formsState, fieldValue, fieldError, formMessage, formControls,
          bodyOverflow, activeElement, timers, frames, dispatched, scrollY,
          navState, navLinks, navbar, scrollState, parallax, called, hist,
          reveal, setup, voice, server, polling, lastEvent>>

\* The program state as one record, and the step that installs a record.
World ==
    [modalState |-> modalState, modalStyle |-> modalStyle,
     modalAriaHidden |-> modalAriaHidden, menuState |-> menuState,
     appState |-> appState, navMenuStyle |-> navMenuStyle,
     navMenuAriaHidden |-> navMenuAriaHidden, hamburger |-> hamburger,
     overlay |-> overlay, innerWidth |-> innerWidth,
     formsState |-> formsState, fieldValue |-> fieldValue,
     fieldError |-> fieldError, formMessage |-> formMessage,
     formControls |-> formControls,
     bodyOverflow |-> bodyOverflow,
     activeElement |-> activeElement, timers |-> timers, fresh |-> <<>>,
     frames |-> frames, dispatched |-> <<>>, scrollY |-> scrollY,
     navState |-> navState, navLinks |-> navLinks, navbar |-> navbar,
     scrollState |-> scrollState, parallax |-> parallax, called |-> <<>>,
     reveal |-> reveal, setup |-> setup,
     voice |-> voice, server |-> server, polling |-> polling, hist |-> hist]

\* The timer queue is kept in firing order. A timer set now fires after
\* every pending timer whose delay is not longer than its own, and timers
\* set by one macrotask fire in the order of their delays; how it falls
\* among the pending timers of longer delay depends on the time elapsed.
InsertAt(q, p, t) == SubSeq(q, 1, p - 1) \o <<t>> \o SubSeq(q, p, Len(q))

RECURSIVE SortByDelay(_)
SortByDelay(ts) ==
    IF ts = <<>> THEN <<>>
    ELSE LET rest == SortByDelay(Tail(ts))
             t == Head(ts)
             before == {i \in 1..Len(rest) : rest[i].delay < t.delay}
         IN  InsertAt(rest, Cardinality(before) + 1, t)

RECURSIVE Merges(_, _, _)
Merges(q, ts, lo) ==
    IF ts = <<>> THEN {q}
    ELSE LET t == Head(ts)
             notLonger == {i \in 1..Len(q) : q[i].delay <= t.delay}
             first == IF notLonger = {} THEN lo + 1
                      ELSE LET m == CHOOSE i \in notLonger :
                                        \A j \in notLonger : j <= i
                           IN  (IF m > lo THEN m ELSE lo) + 1
         IN  UNION {Merges(InsertAt(q, p, t), Tail(ts), p) :
                        p \in first..(Len(q) + 1)}

UserEvents == {"clickCall", "intersect", "scroll", "clickNavLink", "navigateTo", "clickTrigger", "clickClose", "clickBackdrop", "keyEscape",
               "focusMove", "clickHamburger", "clickOverlay", "resize",
               "touchStart", "touchMove", "touchEnd", "input", "blur",
               "submit"}

\* a timer set while a frame is requested fires after that frame
Hold(w, ts) ==
    [i \in 1..Len(ts) |-> [ts[i] EXCEPT !.held = (w.frames # <<>>)]]

\* the frame has run: the timers that waited for it may fire
Release(ts) == [i \in 1..Len(ts) |-> [ts[i] EXCEPT !.held = FALSE]]

Apply(w, ev) ==
    /\ ev \in UserEvents => Len(timers) + Len(frames) <= MaxPending
    /\ timers' \in Merges(w.timers, SortByDelay(Hold(w, w.fresh)), 0)
    /\ modalState' = w.modalState
    /\ modalStyle' = w.modalStyle
    /\ modalAriaHidden' = w.modalAriaHidden
    /\ menuState' = w.menuState
    /\ appState' = w.appState
    /\ navMenuStyle' = w.navMenuStyle
    /\ navMenuAriaHidden' = w.navMenuAriaHidden
    /\ hamburger' = w.hamburger
    /\ overlay' = w.overlay
    /\ innerWidth' = w.innerWidth
    /\ formsState' = w.formsState
    /\ fieldValue' = w.fieldValue
    /\ fieldError' = w.fieldError
    /\ formMessage' = w.formMessage
    /\ formControls' = w.formControls
    /\ bodyOverflow' = w.bodyOverflow
    /\ activeElement' = w.activeElement
    /\ frames' = w.frames
    /\ dispatched' = w.dispatched
    /\ scrollY' = w.scrollY
    /\ navState' = w.navState
    /\ navLinks' = w.navLinks
    /\ navbar' = w.navbar
    /\ scrollState' = w.scrollState
    /\ parallax' = w.parallax
    /\ called' = w.called
    /\ polling' = w.polling
    /\ server' = w.server
    /\ voice' = w.voice
    /\ setup' = w.setup
    /\ reveal' = w.reveal
    /\ hist' = w.hist
    /\ lastEvent' = ev

\* ------------------------------------------------------------------------
\* Event-loop primitives
\* ------------------------------------------------------------------------
SetTimeout(w, kind, ms, target, arg) ==
    [w EXCEPT !.fresh = Append(@, [kind |-> kind, delay |-> ms,
                                   target |-> target, arg |-> arg,
                                   held |-> FALSE])]

RequestAnimationFrame(w, kind, target, arg) ==
    [w EXCEPT !.frames = Append(@, [kind |-> kind, target |-> target,
                                    arg |-> arg])]

DispatchEvent(w, type, detail) ==
    [w EXCEPT !.dispatched = Append(@, [type |-> type, detail |-> detail])]

\* clearTimeout of the timers of one kind
ClearTimeout(w, kind) ==
    [w EXCEPT !.timers = SelectSeq(@, LAMBDA t : t.kind # kind),
              !.fresh = SelectSeq(@, LAMBDA t : t.kind # kind)]

\* clearTimeout of the timer of one kind kept on one element
ClearTimeoutOf(w, kind, target, arg) ==
    [w EXCEPT !.timers = SelectSeq(@, LAMBDA t :
                  ~(t.kind = kind /\ t.target = target /\ t.arg = arg)),
              !.fresh = SelectSeq(@, LAMBDA t :
                  ~(t.kind = kind /\ t.target = target /\ t.arg = arg))]

\* element.focus(): no effect on an element inside a hidden modal
IsVisible(w, e) ==
    \/ e \in PageFocusables
    \/ e = FirstNavLink /\ w.navMenuStyle.display # "none"
    \/ \E m \in Modals : /\ e \in {m, FirstFocusable[m]}
                         /\ w.modalStyle[m].display = "flex"

Focus(w, e) == IF IsVisible(w, e) THEN [w EXCEPT !.activeElement = e] ELSE w

\* ------------------------------------------------------------------------
\* ModalsModule
\* ------------------------------------------------------------------------
\* history of one open() call: the focused element when it was called, the
\* one focused when previousFocus was recorded, and whether a modal was
\* active at the call
NoHist == [atCall |-> Null, atRecord |-> Null, switched |-> FALSE]

Modals_dispatchModalEvent(w, eventType, modalId) ==
    DispatchEvent(w, eventType, modalId)

Modals_prepareModal(w, modal) ==
    [w EXCEPT !.modalStyle[modal].display = "flex",
              !.modalStyle[modal].opacity = "0",
              !.modalStyle[modal].transform = "scale(0.9)",
              !.bodyOverflow = "hidden"]

\* animateIn: the promise body only requests a frame
Modals_animateIn(w, modal, modalId) ==
    RequestAnimationFrame(w, "modalAnimateIn", modal, modalId)

\* the frame callback of animateIn
Modals_animateInFrame(w, modal, modalId) ==
    SetTimeout([w EXCEPT !.modalStyle[modal].transition = "opacity,transform",
                         !.modalStyle[modal].opacity = "1",
                         !.modalStyle[modal].transform = "scale(1)"],
               "modalAnimateIn", ModalAnimationDuration, modal, modalId)

\* animateOut: styles now, display:none and resolve() after the duration;
\* next is the modal id of an open() awaiting this close, or Null
Modals_animateOut(w, modal, next) ==
    SetTimeout([w EXCEPT !.modalStyle[modal].transition = "opacity,transform",
                         !.modalStyle[modal].opacity = "0",
                         !.modalStyle[modal].transform = "scale(0.9)"],
               "modalAnimateOut", ModalAnimationDuration, modal, next)

Modals_cleanupModal(w, modal) ==
    [w EXCEPT !.modalStyle[modal].transition = "",
              !.modalStyle[modal].transform = "",
              !.modalAriaHidden[modal] = "true",
              !.bodyOverflow = ""]

Modals_setupFocusTrap(w, modal) ==
    SetTimeout(w, "modalTrapFocus", FocusDelay, modal, Null)

\* open(), from "this.state.isAnimating = true" to the await of animateIn
Modals_openBegin(w, modalId) ==
    LET w1 == [w EXCEPT !.modalState.isAnimating = TRUE,
                        !.modalState.activeModal = modalId,
                        !.modalState.previousFocus = w.activeElement,
                        !.hist.active = [w.hist.pending EXCEPT
                                            !.atRecord = w.activeElement],
                        !.hist.pending = NoHist]
    IN  Modals_animateIn(Modals_prepareModal(w1, modalId), modalId, modalId)

\* open(), after the await of animateIn
\* open() that never clears isAnimating after animateIn
Modals_openEnd_stuck(w, modal, modalId) ==
    LET w1 == Modals_setupFocusTrap(w, modal)
        w2 == [w1 EXCEPT !.modalAriaHidden[modal] = "false"]
    IN  Modals_dispatchModalEvent(Focus(w2, modal), "modalOpened", modalId)

Modals_openEnd(w, modal, modalId) ==
    LET w1 == Modals_setupFocusTrap(w, modal)
        w2 == [w1 EXCEPT !.modalAriaHidden[modal] = "false"]
        w3 == Focus(w2, modal)
        w4 == [w3 EXCEPT !.modalState.isAnimating = FALSE]
    IN  Modals_dispatchModalEvent(w4, "modalOpened", modalId)

\* mutant: close() without the isAnimating guard
Modals_closeBegin_unguarded(w, next) ==
    IF w.modalState.activeModal = Null
    THEN IF next = Null THEN w ELSE Modals_openBegin(w, next)
    ELSE Modals_animateOut([w EXCEPT !.modalState.isAnimating = TRUE],
                           w.modalState.activeModal, next)

\* close(), up to the await of animateOut; next is the open() awaiting it
Modals_closeBegin(w, next) ==
    IF w.modalState.activeModal = Null \/ w.modalState.isAnimating
    THEN IF next = Null THEN w ELSE Modals_openBegin(w, next)
    ELSE Modals_animateOut([w EXCEPT !.modalState.isAnimating = TRUE],
                           w.modalState.activeModal, next)

\* mutant: close() that forgets to restore the focus
Modals_closeEnd_noRestore(w, modal, next) ==
    LET w1 == Modals_cleanupModal(w, modal)
        w3 == [w1 EXCEPT !.modalState.activeModal = Null,
                         !.modalState.previousFocus = Null,
                         !.modalState.isAnimating = FALSE]
        w4 == Modals_dispatchModalEvent(w3, "modalClosed", modal)
    IN  IF next = Null THEN w4 ELSE Modals_openBegin(w4, next)

\* close(), after the await of animateOut, then the open() that awaited it
Modals_closeEnd(w, modal, next) ==
    LET w1 == Modals_cleanupModal(w, modal)
        w2 == IF w1.modalState.previousFocus # Null
              THEN Focus(w1, w1.modalState.previousFocus) ELSE w1
        w3 == [w2 EXCEPT !.modalState.activeModal = Null,
                         !.modalState.previousFocus = Null,
                         !.modalState.isAnimating = FALSE]
        w4 == Modals_dispatchModalEvent(w3, "modalClosed", modal)
    IN  IF next = Null THEN w4 ELSE Modals_openBegin(w4, next)

Modals_close(w) == Modals_closeBegin(w, Null)

\* mutant: open() that does not close the active modal first
Modals_open_noClose(w, modalId) ==
    IF w.modalState.isAnimating THEN w
    ELSE IF modalId \notin Modals THEN w
    ELSE Modals_openBegin(
             [w EXCEPT !.hist.pending =
                 [atCall |-> w.activeElement, atRecord |-> w.activeElement,
                  switched |-> w.modalState.activeModal # Null]], modalId)

Modals_open(w, modalId) ==
    IF w.modalState.isAnimating THEN w
    ELSE IF modalId \notin Modals THEN w
    ELSE LET w1 == [w EXCEPT !.hist.pending =
                        [atCall |-> w.activeElement,
                         atRecord |-> w.activeElement,
                         switched |-> w.modalState.activeModal # Null]]
         IN  IF w.modalState.activeModal # Null
             THEN Modals_closeBegin(w1, modalId)
             ELSE Modals_openBegin(w1, modalId)

Modals_handleKeydown(w, key) ==
    IF w.modalState.activeModal = Null THEN w
    ELSE IF key = "Escape" THEN Modals_close(w) ELSE w

\* onBackdrop: the click target has class modal or modal-backdrop
Modals_handleBackdropClick(w, onBackdrop) ==
    IF w.modalState.activeModal = Null THEN w
    ELSE IF onBackdrop THEN Modals_close(w) ELSE w

\* ------------------------------------------------------------------------
\* MobileMenuModule
\* ------------------------------------------------------------------------
MobileMenu_dispatchMenuEvent(w, eventType) ==
    DispatchEvent(w, eventType, w.menuState.isOpen)

\* ids of overlay nodes a pending removal timer still refers to
OverlayIdsInUse(w) ==
    LET ts == w.timers \o w.fresh
    IN  {ts[i].arg : i \in {j \in 1..Len(ts) : ts[j].kind = "overlayRemove"}}

MobileMenu_createOverlay(w) ==
    IF w.overlay.id # 0 THEN w
    ELSE LET id == CHOOSE n \in 1..(Len(w.timers) + Len(w.fresh) + 1) :
                       /\ n \notin OverlayIdsInUse(w)
                       /\ \A k \in 1..(n - 1) : k \in OverlayIdsInUse(w)
         IN  RequestAnimationFrame(
                 [w EXCEPT !.overlay = [id |-> id, opacity |-> "0"]],
                 "overlayFadeIn", "overlay", id)

MobileMenu_removeOverlay(w) ==
    IF w.overlay.id = 0 THEN w
    ELSE SetTimeout([w EXCEPT !.overlay.opacity = "0"],
                    "overlayRemove", MenuAnimationDuration, "overlay",
                    w.overlay.id)

MobileMenu_prepareMenuOpen(w) ==
    MobileMenu_createOverlay(
        [w EXCEPT !.navMenuStyle.display = "flex",
                  !.navMenuStyle.transform = "translateX(-100%)",
                  !.navMenuStyle.opacity = "0",
                  !.hamburger.active = TRUE,
                  !.bodyOverflow = "hidden"])

MobileMenu_animateMenuIn(w) ==
    RequestAnimationFrame(w, "menuAnimateIn", "nav-menu", Null)

MobileMenu_animateMenuInFrame(w) ==
    SetTimeout([w EXCEPT !.navMenuStyle.transition = "transform,opacity",
                         !.navMenuStyle.transform = "translateX(0)",
                         !.navMenuStyle.opacity = "1"],
               "menuAnimateIn", MenuAnimationDuration, "nav-menu", Null)

MobileMenu_animateMenuOut(w) ==
    SetTimeout([w EXCEPT !.navMenuStyle.transition = "transform,opacity",
                         !.navMenuStyle.transform = "translateX(-100%)",
                         !.navMenuStyle.opacity = "0"],
               "menuAnimateOut", MenuAnimationDuration, "nav-menu", Null)

MobileMenu_cleanupMenuClose(w) ==
    MobileMenu_removeOverlay(
        [w EXCEPT !.navMenuStyle.transition = "",
                  !.navMenuStyle.transform = "",
                  !.navMenuStyle.opacity = "",
                  !.hamburger.active = FALSE,
                  !.bodyOverflow = ""])

MobileMenu_setupMenuFocus(w) ==
    SetTimeout(w, "menuFocus", FocusDelay, FirstNavLink, Null)

MobileMenu_updateAccessibilityOpen(w) ==
    [w EXCEPT !.hamburger.ariaExpanded = "true",
              !.hamburger.ariaLabel = "Close navigation menu",
              !.navMenuAriaHidden = "false"]

MobileMenu_updateAccessibilityClosed(w) ==
    [w EXCEPT !.hamburger.ariaExpanded = "false",
              !.hamburger.ariaLabel = "Open navigation menu",
              !.navMenuAriaHidden = "true"]

\* open(), after the await of animateMenuIn
MobileMenu_openEnd(w) ==
    LET w1 == MobileMenu_updateAccessibilityOpen(MobileMenu_setupMenuFocus(w))
    IN  MobileMenu_dispatchMenuEvent(
            [w1 EXCEPT !.menuState.isAnimating = FALSE], "mobileMenuOpened")

MobileMenu_open(w) ==
    IF w.menuState.isOpen \/ w.menuState.isAnimating \/ ~w.menuState.isMobile
    THEN w
    ELSE MobileMenu_animateMenuIn(MobileMenu_prepareMenuOpen(
             [w EXCEPT !.menuState.isAnimating = TRUE,
                       !.menuState.isOpen = TRUE,
                       !.appState.isMobileMenuOpen = TRUE]))

\* close() whose tail leaves the ARIA attributes as they are
MobileMenu_closeEnd_staleAria(w) ==
    LET w1 == MobileMenu_cleanupMenuClose(w)
    IN  MobileMenu_dispatchMenuEvent(
            [w1 EXCEPT !.menuState.isAnimating = FALSE], "mobileMenuClosed")

\* close(), after "if (animate) await this.animateMenuOut()"
MobileMenu_closeEnd(w) ==
    LET w1 == MobileMenu_updateAccessibilityClosed(
                  MobileMenu_cleanupMenuClose(w))
    IN  MobileMenu_dispatchMenuEvent(
            [w1 EXCEPT !.menuState.isAnimating = FALSE], "mobileMenuClosed")

\* mutant: close() without the isAnimating guard
MobileMenu_close_unguarded(w, animate) ==
    IF ~w.menuState.isOpen
    THEN w
    ELSE LET w1 == [w EXCEPT !.menuState.isAnimating = TRUE,
                             !.menuState.isOpen = FALSE,
                             !.appState.isMobileMenuOpen = FALSE]
         IN  IF animate THEN MobileMenu_animateMenuOut(w1)
             ELSE MobileMenu_closeEnd(w1)

MobileMenu_close(w, animate) ==
    IF ~w.menuState.isOpen \/ w.menuState.isAnimating
    THEN w
    ELSE LET w1 == [w EXCEPT !.menuState.isAnimating = TRUE,
                             !.menuState.isOpen = FALSE,
                             !.appState.isMobileMenuOpen = FALSE]
         IN  IF animate THEN MobileMenu_animateMenuOut(w1)
             ELSE MobileMenu_closeEnd(w1)

MobileMenu_toggle(w) ==
    IF w.menuState.isOpen THEN MobileMenu_close(w, TRUE)
    ELSE MobileMenu_open(w)

MobileMenu_checkMobileState(w) ==
    LET w1 == [w EXCEPT !.menuState.isMobile = (w.innerWidth <= Breakpoint)]
    IN  IF ~w1.menuState.isMobile /\ w1.menuState.isOpen
        THEN MobileMenu_close(w1, FALSE) ELSE w1

MobileMenu_handleResize(w) ==
    SetTimeout(ClearTimeout(w, "menuResize"), "menuResize", ResizeDebounce,
               "window", Null)

MobileMenu_handleKeydown(w, key) ==
    IF ~w.menuState.isOpen THEN w
    ELSE IF key = "Escape" THEN MobileMenu_close(w, TRUE) ELSE w

\* outside: the click target is neither in the nav menu nor in the hamburger
MobileMenu_handleOutsideClick(w, outside) ==
    IF ~w.menuState.isOpen \/ ~w.menuState.isMobile THEN w
    ELSE IF outside THEN MobileMenu_close(w, TRUE) ELSE w

MobileMenu_handleTouchStart(w, x) == [w EXCEPT !.menuState.touchStartX = x]

\* a horizontal move (the touch keeps its clientY)
MobileMenu_handleTouchMove(w, x) ==
    IF ~w.menuState.isOpen THEN w
    ELSE IF x - w.menuState.touchStartX < 0
         THEN [w EXCEPT !.navMenuStyle.transform = "translateX(swipe)",
                        !.navMenuStyle.opacity = "swipe"]
         ELSE w

MobileMenu_handleTouchEnd(w, x) ==
    IF ~w.menuState.isOpen THEN w
    ELSE LET w1 == [w EXCEPT !.navMenuStyle.transform = "",
                             !.navMenuStyle.opacity = ""]
         IN  IF x - w.menuState.touchStartX < 0 - SwipeThreshold
             THEN MobileMenu_close(w1, TRUE) ELSE w1

\* ------------------------------------------------------------------------
\* FormsModule
\* ------------------------------------------------------------------------
Whitespace == {" "}

\* value.trim().length > 0
TrimmedNonEmpty(value) == \E i \in 1..Len(value) : value[i] \notin Whitespace

\* /^[^\s@]+@[^\s@]+\.[^\s@]+$/.test(value)
EmailPattern(value) ==
    \E a \in 1..Len(value) :
        /\ value[a] = "@"
        /\ \A i \in 1..Len(value) :
              /\ value[i] \notin Whitespace
              /\ (value[i] = "@" => i = a)
        /\ a > 1
        /\ \E p \in (a + 2)..(Len(value) - 1) : value[p] = "."

\* the character classes of the phone pattern
Digits == {"0", "1", "2", "3", "4", "5", "6", "7", "8", "9"}
PhoneSeparators == {" ", "-", "(", ")"}

\* /^[\+]?[1-9][\d]{0,2}[\s\-\(\)]*[\d\s\-\(\)]{7,}$/.test(value): plus is the
\* length of [\+]?, d of [\d]{0,2} and sp of [\s\-\(\)]*
PhonePattern(value) ==
    \E plus \in 0..1 : \E d \in 0..2 : \E sp \in 0..Len(value) :
        LET lead == plus + 1
            rest == lead + d + sp
        IN  /\ plus = 1 => (Len(value) >= 1 /\ value[1] = "+")
            /\ Len(value) >= lead
            /\ value[lead] \in Digits \ {"0"}
            /\ rest <= Len(value)
            /\ \A i \in (lead + 1)..(lead + d) : value[i] \in Digits
            /\ \A i \in (lead + d + 1)..rest : value[i] \in PhoneSeparators
            /\ Len(value) - rest >= 7
            /\ \A i \in (rest + 1)..Len(value) :
                  value[i] \in Digits \cup PhoneSeparators

\* data-validate of every field, as setupNewsletterForm, setupCommunityForm
\* and setupConsultationForm write it: the rules in list order, each with
\* its parameter
ValidateAttr ==
    ("newsletter-form" :>
        [email |-> <<[name |-> "required", param |-> 0],
                     [name |-> "email", param |-> 0]>>]) @@
    ("community-form" :>
        [name |-> <<[name |-> "required", param |-> 0],
                    [name |-> "minLength", param |-> 2]>>,
         email |-> <<[name |-> "required", param |-> 0],
                     [name |-> "email", param |-> 0]>>]) @@
    ("consultation-form" :>
        [name |-> <<[name |-> "required", param |-> 0],
                    [name |-> "minLength", param |-> 2]>>,
         email |-> <<[name |-> "required", param |-> 0],
                     [name |-> "email", param |-> 0]>>,
         phone |-> <<[name |-> "phone", param |-> 0]>>,
         message |-> <<[name |-> "required", param |-> 0],
                       [name |-> "minLength", param |-> 10],
                       [name |-> "maxLength", param |-> 1000]>>])

\* the rules of setupValidationRules
RuleNames == {"email", "phone", "required", "minLength", "maxLength"}

RuleIsValid(rule, value) ==
    CASE rule.name = "email" -> EmailPattern(value)
      [] rule.name = "phone" -> PhonePattern(value)
      [] rule.name = "required" -> value # <<>> /\ TrimmedNonEmpty(value)
      [] rule.name = "minLength" -> value # <<>> /\ Len(value) >= rule.param
      [] rule.name = "maxLength" -> value = <<>> \/ Len(value) <= rule.param
      [] OTHER -> TRUE

\* `Minimum ${minLength} characters required`, for the parameters in use
MinLengthMessage(param) ==
    CASE param = 2 -> "Minimum 2 characters required"
      [] param = 10 -> "Minimum 10 characters required"
      [] OTHER -> "Minimum N characters required"

RuleMessage(rule) ==
    CASE rule.name = "email" -> "Please enter a valid email address"
      [] rule.name = "phone" -> "Please enter a valid phone number"
      [] rule.name = "required" -> "This field is required"
      [] rule.name = "minLength" -> MinLengthMessage(rule.param)
      [] rule.name = "maxLength" -> "Maximum N characters allowed"
      [] OTHER -> ""

\* index of the first rule of the list that fails, 0 when none does
FirstFailing(rules, value) ==
    LET failing == {i \in 1..Len(rules) :
                       /\ rules[i].name \in RuleNames
                       /\ ~RuleIsValid(rules[i], value)}
    IN  IF failing = {} THEN 0
        ELSE CHOOSE i \in failing : \A j \in failing : i <= j

Forms_showFieldError(w, form, field, message) ==
    [w EXCEPT !.fieldError[form][field] =
        [class |-> TRUE, text |-> message, display |-> "block",
         ariaInvalid |-> "true", ariaDescribedby |-> "field-error"]]

Forms_clearFieldError(w, form, field) ==
    [w EXCEPT !.fieldError[form][field].class = FALSE,
              !.fieldError[form][field].display =
                  IF @ = "" THEN "" ELSE "none",
              !.fieldError[form][field].ariaInvalid = "false",
              !.fieldError[form][field].ariaDescribedby = ""]

Forms_fieldIsValid(w, form, field) ==
    FirstFailing(ValidateAttr[form][field], w.fieldValue[form][field]) = 0

\* validateField that runs every rule and keeps the last failure
Forms_validateField_lastFailing(w, form, field) ==
    LET rules == ValidateAttr[form][field]
        failing == {i \in 1..Len(rules) :
                       /\ rules[i].name \in RuleNames
                       /\ ~RuleIsValid(rules[i], w.fieldValue[form][field])}
    IN  IF failing = {} THEN Forms_clearFieldError(w, form, field)
        ELSE Forms_showFieldError(
                 w, form, field,
                 RuleMessage(rules[CHOOSE i \in failing :
                                      \A j \in failing : j <= i]))

Forms_validateField(w, form, field) ==
    LET rules == ValidateAttr[form][field]
        i == FirstFailing(rules, w.fieldValue[form][field])
    IN  IF i = 0 THEN Forms_clearFieldError(w, form, field)
        ELSE Forms_showFieldError(w, form, field, RuleMessage(rules[i]))

\* validateForm: every field is validated, whatever the earlier ones gave
RECURSIVE ValidateFields(_, _, _)
ValidateFields(w, form, fields) ==
    IF fields = {} THEN w
    ELSE LET field == CHOOSE x \in fields : TRUE
         IN  ValidateFields(Forms_validateField(w, form, field), form,
                            fields \ {field})

Forms_validateForm(w, form) == ValidateFields(w, form, FormFields[form])

Forms_formIsValid(w, form) ==
    \A field \in FormFields[form] : Forms_fieldIsValid(w, form, field)

Forms_showFormMessage(w, form, message, type) ==
    SetTimeout([w EXCEPT !.formMessage[form] =
                   [text |-> message, type |-> type, display |-> "block"]],
               "hideMessage", MessageTimeout, form, Null)

\* no submit button carries data-original-text
OriginalTextAttr == [form \in Forms |-> Null]
\* the text of the submit buttons in the markup
ButtonLabel == [form \in Forms |-> "Join"]

Forms_setFormSubmitting(w, form, isSubmitting) ==
    [w EXCEPT !.formControls[form] =
        [submitDisabled |-> isSubmitting,
         buttonText |-> IF isSubmitting THEN "Submitting..."
                        ELSE IF OriginalTextAttr[form] # Null
                             THEN OriginalTextAttr[form] ELSE "Submit",
         submittingClass |-> isSubmitting,
         inputsDisabled |-> isSubmitting]]

\* getFormData: FormData holds the named controls that are not disabled
Forms_getFormData(w, form) ==
    [field \in (IF w.formControls[form].inputsDisabled THEN {}
                ELSE FormFields[form]) |-> w.fieldValue[form][field]]

StrategyDelay ==
    ("newsletter-form" :> NewsletterDelay) @@
    ("community-form" :> CommunityDelay) @@
    ("consultation-form" :> ConsultationDelay)

SuccessMessage ==
    ("newsletter-form" :> "Thank you for subscribing to our newsletter!") @@
    ("community-form" :>
        "Welcome to our community! Check your email for next steps.") @@
    ("consultation-form" :>
        "Your consultation request has been submitted. We'll contact you soon!")

\* what a submission strategy can settle with: the simulated strategies of
\* the module resolve with success, the endpoint contract adds the others
NoResult == [settled |-> "none", success |-> FALSE, message |-> ""]
StrategyResults(form) ==
    {[settled |-> "resolved", success |-> TRUE,
      message |-> SuccessMessage[form]],
     [settled |-> "resolved", success |-> FALSE,
      message |-> "Invalid email address"],
     [settled |-> "resolvedUndefined", success |-> FALSE, message |-> ""],
     [settled |-> "rejected", success |-> FALSE, message |-> "Failed to fetch"],
     [settled |-> "rejected", success |-> FALSE, message |-> ""]}

\* the TypeError that result.message throws when the result is undefined
ResultTypeError ==
    [settled |-> "thrown", success |-> FALSE,
     message |-> "Cannot read properties of undefined (reading 'message')"]

Forms_dispatchFormEvent(w, eventType, detail) ==
    DispatchEvent(w, eventType, detail)

\* form.reset() and the clearing of the field errors
Forms_resetForm(w, form) ==
    [w EXCEPT !.fieldValue[form] = [field \in FormFields[form] |-> EmptyValue],
              !.fieldError[form] =
                  [field \in FormFields[form] |->
                      [w.fieldError[form][field] EXCEPT
                          !.class = FALSE,
                          !.display = IF @ = "" THEN "" ELSE "none"]]]

\* handleFormSuccess that leaves the modal of the form open
Forms_handleFormSuccess_noClose(w, form, result) ==
    Forms_dispatchFormEvent(
        Forms_resetForm(
            Forms_showFormMessage(w, form, result.message, "success"), form),
        "formSuccess", [form |-> form, result |-> result])

Forms_handleFormSuccess(w, form, result) ==
    LET w1 == Forms_showFormMessage(w, form, result.message, "success")
        w2 == Forms_resetForm(w1, form)
        w3 == IF FormModal[form] # Null
              THEN SetTimeout(w2, "autoClose", AutoCloseDelay,
                              FormModal[form], Null)
              ELSE w2
    IN  Forms_dispatchFormEvent(w3, "formSuccess",
                                [form |-> form, result |-> result])

\* handleFormError that clears the form as a success does
Forms_handleFormError_reset(w, form, error) ==
    Forms_dispatchFormEvent(
        Forms_resetForm(
            Forms_showFormMessage(
                w, form,
                IF error.message # "" THEN error.message
                ELSE "An error occurred. Please try again.", "error"), form),
        "formError", [form |-> form, error |-> error])

Forms_handleFormError(w, form, error) ==
    LET message == IF error.message # "" THEN error.message
                   ELSE "An error occurred. Please try again."
    IN  Forms_dispatchFormEvent(
            Forms_showFormMessage(w, form, message, "error"),
            "formError", [form |-> form, error |-> error])

\* handleFormSubmit without the submittingForms guard
Forms_handleFormSubmit_unguarded(w, form) ==
    LET w1 == Forms_validateForm(w, form)
    IN  IF ~Forms_formIsValid(w, form)
        THEN Forms_showFormMessage(w1, form,
                 "Please correct the errors below", "error")
        ELSE LET w2 == Forms_setFormSubmitting(
                           [w1 EXCEPT !.formsState.submittingForms =
                                          @ \cup {form}], form, TRUE)
             IN  SetTimeout(w2, "strategy", StrategyDelay[form], form,
                            Forms_getFormData(w2, form))

\* handleFormSubmit that reports the validation failure and submits anyway
Forms_handleFormSubmit_noAbort(w, form) ==
    IF form \in w.formsState.submittingForms THEN w
    ELSE LET w1 == Forms_validateForm(w, form)
             w2 == IF ~Forms_formIsValid(w, form)
                   THEN Forms_showFormMessage(w1, form,
                            "Please correct the errors below", "error")
                   ELSE w1
             w3 == Forms_setFormSubmitting(
                       [w2 EXCEPT !.formsState.submittingForms =
                                      @ \cup {form}], form, TRUE)
         IN  SetTimeout(w3, "strategy", StrategyDelay[form], form,
                        Forms_getFormData(w3, form))

\* handleFormSubmit up to the await of the submission strategy
Forms_handleFormSubmit(w, form) ==
    IF form \in w.formsState.submittingForms THEN w
    ELSE LET w1 == Forms_validateForm(w, form)
         IN  IF ~Forms_formIsValid(w, form)
             THEN Forms_showFormMessage(w1, form,
                      "Please correct the errors below", "error")
             ELSE LET w2 == Forms_setFormSubmitting(
                                [w1 EXCEPT !.formsState.submittingForms =
                                               @ \cup {form}], form, TRUE)
                  IN  SetTimeout(w2, "strategy", StrategyDelay[form], form,
                                 Forms_getFormData(w2, form))

\* handleFormSubmit after the await, with the finally block reached only when
\* nothing was thrown
Forms_handleFormSubmitSettled_noFinally(w, form, result) ==
    IF result.settled = "resolved"
    THEN Forms_setFormSubmitting(
             [Forms_handleFormSuccess(w, form, result) EXCEPT
                 !.formsState.submittingForms = @ \ {form},
                 !.hist.duplicates[form] = 0],
             form, FALSE)
    ELSE Forms_handleFormError(
             w, form,
             IF result.settled = "resolvedUndefined" THEN ResultTypeError
             ELSE result)

\* handleFormSubmit after the await: try / catch / finally; handleFormSuccess
\* throws at its first statement when the result is undefined
Forms_handleFormSubmitSettled(w, form, result) ==
    LET w1 == CASE result.settled = "resolved" ->
                     Forms_handleFormSuccess(w, form, result)
                [] result.settled = "resolvedUndefined" ->
                     Forms_handleFormError(w, form, ResultTypeError)
                [] OTHER -> Forms_handleFormError(w, form, result)
    IN  Forms_setFormSubmitting(
            [w1 EXCEPT !.formsState.submittingForms = @ \ {form},
                       !.hist.duplicates[form] = 0],
            form, FALSE)

Forms_handleInputValidation(w, form, field) ==
    SetTimeout(ClearTimeoutOf(w, "inputValidation", form, field),
               "inputValidation", InputDebounce, form, field)

Forms_handleBlurValidation(w, form, field) ==
    Forms_validateField(w, form, field)

\* ------------------------------------------------------------------------
\* RetrospxtApp
\* ------------------------------------------------------------------------
\* initializeModules when the constructor of thrower throws (Null: none
\* does): the statements from index i on, up to the one that throws
RECURSIVE App_initializeModules(_, _)
App_initializeModules(i, thrower) ==
    IF i > Len(ModuleOrder) \/ ModuleOrder[i] = thrower THEN {}
    ELSE {ModuleOrder[i]} \cup App_initializeModules(i + 1, thrower)

\* setup(): the catch block logs the error and setup returns
App_setup(thrower) ==
    [created |-> App_initializeModules(1, thrower), failed |-> thrower]

\* the controller exists: its listeners were registered
Has(w, module) == module \in w.setup.created

\* the controller that polls for the module classes: loaded holds the
\* classes the module scripts have assigned to window
Polling_init(loaded) ==
    [loaded |-> loaded, started |-> FALSE, created |-> {},
     instantiations |-> 0, isInitialized |-> FALSE]

Polling_checkModulesLoaded(w) == AppModules \subseteq w.polling.loaded

Polling_initializeModules(w) ==
    IF ~Polling_checkModulesLoaded(w)
    THEN SetTimeout(w, "modulesRetry", ModuleRetryDelay, Null, Null)
    ELSE [w EXCEPT !.polling.created = AppModules,
                   !.polling.instantiations = @ + 1]

\* setup(): cacheElements, initializeModules, bindEvents, isInitialized
Polling_setup(w) ==
    [Polling_initializeModules([w EXCEPT !.polling.started = TRUE]) EXCEPT
        !.polling.isInitialized = TRUE]

\* ------------------------------------------------------------------------
\* NavigationModule
\* ------------------------------------------------------------------------
Navigation_updateNavbarAppearance(w) ==
    [w EXCEPT !.navbar =
                  IF w.navState.isScrolled
                  THEN [scrolled |-> TRUE,
                        background |-> "rgba(10, 22, 40, 0.95)",
                        boxShadow |-> "0 4px 20px rgba(0, 0, 0, 0.3)"]
                  ELSE [scrolled |-> FALSE,
                        background |-> "rgba(10, 22, 40, 0.8)",
                        boxShadow |-> "none"],
              !.called = Append(@, "updateNavbarAppearance")]

\* handleNavbarScroll that updates the navbar on every scroll event
Navigation_handleNavbarScroll_level(w) ==
    Navigation_updateNavbarAppearance(
        [w EXCEPT !.navState.isScrolled = w.scrollY > NavbarScrollThreshold])

Navigation_handleNavbarScroll(w) ==
    LET shouldBeScrolled == w.scrollY > NavbarScrollThreshold
    IN  IF shouldBeScrolled # w.navState.isScrolled
        THEN Navigation_updateNavbarAppearance(
                 [w EXCEPT !.navState.isScrolled = shouldBeScrolled])
        ELSE w

\* setActiveNavLink that toggles the class and leaves aria-current alone
Navigation_setActiveNavLink_classOnly(w, activeId) ==
    [w EXCEPT !.navLinks =
        [h \in NavHrefs |-> [w.navLinks[h] EXCEPT !.active = (h = activeId)]],
              !.called = Append(@, "setActiveNavLink")]

Navigation_setActiveNavLink(w, activeId) ==
    [w EXCEPT !.navLinks =
        [h \in NavHrefs |->
            [active |-> (h = activeId),
             ariaCurrent |-> IF h = activeId THEN "page" ELSE "false"]],
              !.called = Append(@, "setActiveNavLink")]

\* the forEach of updateActiveSection over the sections from index i on
RECURSIVE SectionScan(_, _, _)
SectionScan(i, scrollPos, activeSection) ==
    IF i > Len(Sections) THEN activeSection
    ELSE LET sectionTop == OffsetTop[Sections[i]]
             sectionHeight == OffsetHeight[Sections[i]]
         IN  SectionScan(i + 1, scrollPos,
                         IF /\ scrollPos >= sectionTop
                            /\ scrollPos < sectionTop + sectionHeight
                         THEN Sections[i] ELSE activeSection)

\* updateActiveSection that probes at scrollY itself
Navigation_updateActiveSection_noProbe(w) ==
    LET activeSection == SectionScan(1, w.scrollY, "home")
        w1 == [w EXCEPT !.called = Append(@, "updateActiveSection")]
    IN  IF activeSection # w.navState.activeSection
        THEN Navigation_setActiveNavLink(
                 [w1 EXCEPT !.navState.activeSection = activeSection],
                 SectionHref[activeSection])
        ELSE w1

\* updateActiveSection that marks the link on every run
Navigation_updateActiveSection_always(w) ==
    LET scrollPos == w.scrollY + SectionOffset + ProbePadding
        activeSection == SectionScan(1, scrollPos, "home")
    IN  Navigation_setActiveNavLink(
            [w EXCEPT !.called = Append(@, "updateActiveSection"),
                      !.navState.activeSection = activeSection],
            SectionHref[activeSection])

Navigation_updateActiveSection(w) ==
    LET scrollPos == w.scrollY + SectionOffset + ProbePadding
        activeSection == SectionScan(1, scrollPos, "home")
        w1 == [w EXCEPT !.called = Append(@, "updateActiveSection")]
    IN  IF activeSection # w.navState.activeSection
        THEN Navigation_setActiveNavLink(
                 [w1 EXCEPT !.navState.activeSection = activeSection],
                 SectionHref[activeSection])
        ELSE w1

\* the function throttle() returns for updateActiveSection
Navigation_throttledScrollSpy(w) ==
    IF ~w.navState.inThrottle
    THEN SetTimeout([Navigation_updateActiveSection(w) EXCEPT
                        !.navState.inThrottle = TRUE],
                    "navThrottle", ThrottleLimit, Null, Null)
    ELSE w

\* window.scrollTo only starts a smooth scroll: the scroll events follow
Navigation_scrollToSection(w, targetId) ==
    LET w1 == Navigation_setActiveNavLink(
                  [w EXCEPT !.called = Append(@, "scrollTo")], targetId)
    IN  IF Has(w1, "mobileMenu") THEN MobileMenu_close(w1, TRUE) ELSE w1

Navigation_handleNavClick(w, href) == Navigation_scrollToSection(w, href)

\* navigateTo that does not look the selector up
Navigation_navigateTo_unchecked(w, sectionId) ==
    Navigation_scrollToSection([w EXCEPT !.called = Append(@, sectionId)],
                               sectionId)

\* the history records the selector of the call
Navigation_navigateTo(w, sectionId) ==
    LET w1 == [w EXCEPT !.called = Append(@, sectionId)]
    IN  IF sectionId \in NavTargets
        THEN Navigation_scrollToSection(w1, sectionId) ELSE w1

\* ------------------------------------------------------------------------
\* ScrollEffectsModule
\* ------------------------------------------------------------------------
\* handleScroll that requests a frame whatever the ticking flag says
ScrollEffects_handleScroll_noTicking(w) ==
    [RequestAnimationFrame([w EXCEPT !.scrollState.lastScrollY = w.scrollY],
                           "scrollEffects", Null, Null) EXCEPT
        !.scrollState.ticking = TRUE]

ScrollEffects_handleScroll(w) ==
    LET w1 == [w EXCEPT !.scrollState.lastScrollY = w.scrollY]
    IN  IF ~w1.scrollState.ticking
        THEN [RequestAnimationFrame(w1, "scrollEffects", Null, Null) EXCEPT
                 !.scrollState.ticking = TRUE]
        ELSE w1

ScrollEffects_updateParallax(w) ==
    [w EXCEPT !.parallax =
        [kind |-> "translate3d",
         y |-> 0 - (w.scrollState.lastScrollY \div ParallaxDivisor)],
              !.called = Append(@, "updateParallax")]

\* updateScrollEffects that does not read isParallaxEnabled
ScrollEffects_updateScrollEffects_always(w) ==
    [ScrollEffects_updateParallax(w) EXCEPT !.scrollState.ticking = FALSE]

ScrollEffects_updateScrollEffects(w) ==
    [(IF w.scrollState.isParallaxEnabled
      THEN ScrollEffects_updateParallax(w) ELSE w)
     EXCEPT !.scrollState.ticking = FALSE]

ScrollEffects_handleResize(w) ==
    LET isMobile == w.innerWidth <= ParallaxBreakpoint
        w1 == [w EXCEPT !.scrollState.isParallaxEnabled = ~isMobile]
    IN  IF isMobile THEN [w1 EXCEPT !.parallax = [kind |-> "none", y |-> 0]]
        ELSE w1

ScrollEffects_animateElement(w, element) ==
    DispatchEvent([w EXCEPT !.reveal[element].opacity = "1",
                            !.reveal[element].transform = "translateY(0)",
                            !.reveal[element].animated = TRUE,
                            !.reveal[element].runs = @ + 1],
                  "elementAnimated", [element |-> element])

\* handleIntersection that keeps observing the revealed element
ScrollEffects_handleEntry_keepObserving(w, entry, index) ==
    IF entry.isIntersecting
    THEN [SetTimeout(w, "reveal", index * AnimationDelay, entry.target, Null)
          EXCEPT !.reveal[entry.target].scheduled = @ + 1]
    ELSE w

\* the body of handleIntersection for the entry at position index (from 0)
ScrollEffects_handleEntry(w, entry, index) ==
    IF entry.isIntersecting
    THEN [SetTimeout(w, "reveal", index * AnimationDelay, entry.target, Null)
          EXCEPT !.reveal[entry.target].observed = FALSE,
                 !.reveal[entry.target].scheduled = @ + 1]
    ELSE w

RECURSIVE ScrollEffects_handleEntries(_, _, _)
ScrollEffects_handleEntries(w, entries, index) ==
    IF index >= Len(entries) THEN w
    ELSE ScrollEffects_handleEntries(
             ScrollEffects_handleEntry(w, entries[index + 1], index),
             entries, index + 1)

ScrollEffects_handleIntersection(w, entries) ==
    ScrollEffects_handleEntries(w, entries, 0)

\* ------------------------------------------------------------------------
\* VapiIntegration
\* ------------------------------------------------------------------------
\* init() and createVoiceInterface(): window.Vapi and its key are there
\* (hasClient) or the integration runs in demo mode
Vapi_init(hasClient) ==
    [hasClient |-> hasClient, client |-> "idle", isCallActive |-> FALSE,
     text |-> "Ready", state |-> "ready", transcriptHidden |-> TRUE,
     messages |-> 0, starts |-> 0]

\* the states in which updateButtonState shows the transcript container
TranscriptStates == {"connected", "listening", "processing"}

Vapi_updateButtonState(w, text, state) ==
    [w EXCEPT !.voice.text = text,
              !.voice.state = state,
              !.voice.transcriptHidden = @ /\ state \notin TranscriptStates,
              !.called = Append(@, state)]

Vapi_updateCallButton(w, text, state) == Vapi_updateButtonState(w, text, state)

Vapi_updateStatusIndicator(w, text, state) ==
    Vapi_updateButtonState(w, text, state)

Vapi_displayAssistantMessage(w) == [w EXCEPT !.voice.messages = @ + 1]

\* the listeners setupEventListeners registers on the client
Vapi_onCallStart(w) ==
    Vapi_updateStatusIndicator(
        Vapi_updateCallButton([w EXCEPT !.voice.isCallActive = TRUE],
                              "End Call", "active"),
        "Connected", "connected")

Vapi_onCallEnd(w) ==
    Vapi_updateStatusIndicator(
        Vapi_updateCallButton([w EXCEPT !.voice.isCallActive = FALSE],
                              "Start Voice Chat", "inactive"),
        "Disconnected", "disconnected")

Vapi_onSpeechStart(w) == Vapi_updateStatusIndicator(w, "Listening...", "listening")

Vapi_onSpeechEnd(w) == Vapi_updateStatusIndicator(w, "Processing...", "processing")

Vapi_onError(w) ==
    Vapi_updateCallButton(
        [Vapi_updateStatusIndicator(w, "Error occurred", "error") EXCEPT
            !.voice.isCallActive = FALSE],
        "Start Voice Chat", "inactive")

\* simulateCallStart that updates the status without the call button
Vapi_simulateCallStart_statusOnly(w) ==
    SetTimeout(Vapi_updateStatusIndicator(
                   [w EXCEPT !.voice.isCallActive = TRUE],
                   "Connected (Demo)", "connected"),
               "demoMessage", DemoMessageDelay, Null, Null)

Vapi_simulateCallStart(w) ==
    SetTimeout(Vapi_updateStatusIndicator(
                   Vapi_updateCallButton(
                       [w EXCEPT !.voice.isCallActive = TRUE],
                       "End Call", "active"),
                   "Connected (Demo)", "connected"),
               "demoMessage", DemoMessageDelay, Null, Null)

Vapi_simulateCallEnd(w) ==
    Vapi_updateStatusIndicator(
        Vapi_updateCallButton([w EXCEPT !.voice.isCallActive = FALSE],
                              "Start Voice Chat", "inactive"),
        "Disconnected", "disconnected")

\* startCall up to the await of vapi.start(), or the demo timer
Vapi_startCall(w) ==
    LET w1 == Vapi_updateStatusIndicator(w, "Connecting...", "connecting")
    IN  IF w1.voice.hasClient
        THEN [w1 EXCEPT !.voice.client = "starting", !.voice.starts = @ + 1]
        ELSE SetTimeout(w1, "demoCallStart", DemoConnectDelay, Null, Null)

\* the catch block of startCall: vapi.start() rejected
Vapi_startCallFailed(w) ==
    Vapi_updateStatusIndicator([w EXCEPT !.voice.client = "idle",
                                         !.voice.starts = 0],
                               "Failed to connect", "error")

Vapi_endCall(w) ==
    IF w.voice.hasClient THEN [w EXCEPT !.voice.client = "stopping"]
    ELSE Vapi_simulateCallEnd(w)

Vapi_toggleCall(w) ==
    IF w.voice.isCallActive THEN Vapi_endCall(w) ELSE Vapi_startCall(w)

\* ------------------------------------------------------------------------
\* Mail server
\* ------------------------------------------------------------------------
NoResponse == [status |-> 0, success |-> FALSE, message |-> ""]

\* createTransporter(): null ("none") without Gmail or SMTP credentials
Server_createTransporter(env) == env

\* the module body: the transporter, and the request for a test account
\* when there is none
Server_start(env) ==
    [transporter |-> Server_createTransporter(env),
     account |-> IF Server_createTransporter(env) = "none" THEN "pending"
                 ELSE "none",
     inflight |-> <<>>, request |-> NoRequest, response |-> NoResponse]

\* the callback of nodemailer.createTestAccount
Server_testAccountCallback(srv, err) ==
    IF err THEN [srv EXCEPT !.account = "failed"]
    ELSE [srv EXCEPT !.account = "created", !.transporter = "ethereal"]

\* !value of a body field
Falsy(value) == value = Absent \/ value = EmptyValue

\* String(value) as the regular expression test reads it
AsString(value) ==
    IF value = Absent
    THEN <<"u", "n", "d", "e", "f", "i", "n", "e", "d">> ELSE value

\* the handler without the check of the email format
Server_communityJoin_noRegex(srv, formData) ==
    LET s1 == [srv EXCEPT !.request = formData]
    IN  IF \/ Falsy(formData.name) \/ Falsy(formData.email)
           \/ Falsy(formData.aiExperience)
        THEN [s1 EXCEPT !.response =
                 [status |-> 400, success |-> FALSE,
                  message |-> "Missing required fields: name, email, and AI experience level are required."]]
        ELSE IF s1.transporter = "none"
        THEN [s1 EXCEPT !.response =
                 [status |-> 500, success |-> FALSE,
                  message |-> "Email service is not configured. Please contact support."]]
        ELSE [s1 EXCEPT !.inflight = Append(@, formData),
                        !.response = NoResponse]

\* app.post('/api/community-join') up to the await of sendMail
Server_communityJoin(srv, formData) ==
    LET s1 == [srv EXCEPT !.request = formData]
    IN  IF \/ Falsy(formData.name) \/ Falsy(formData.email)
           \/ Falsy(formData.aiExperience)
        THEN [s1 EXCEPT !.response =
                 [status |-> 400, success |-> FALSE,
                  message |-> "Missing required fields: name, email, and AI experience level are required."]]
        ELSE IF ~EmailPattern(AsString(formData.email))
        THEN [s1 EXCEPT !.response =
                 [status |-> 400, success |-> FALSE,
                  message |-> "Please provide a valid email address."]]
        ELSE IF s1.transporter = "none"
        THEN [s1 EXCEPT !.response =
                 [status |-> 500, success |-> FALSE,
                  message |-> "Email service is not configured. Please contact support."]]
        ELSE [s1 EXCEPT !.inflight = Append(@, formData),
                        !.response = NoResponse]

\* the handler after sendMail settled for the oldest request
Server_communityJoinSettled(srv, sent) ==
    [srv EXCEPT !.inflight = Tail(@),
                !.request = Head(srv.inflight),
                !.response =
                    IF sent
                    THEN [status |-> 200, success |-> TRUE,
                          message |-> "Thank you for joining our community! We'll be in touch soon."]
                    ELSE [status |-> 500, success |-> FALSE,
                          message |-> "There was an error processing your request. Please try again later."]]

\* ------------------------------------------------------------------------
\* Timer and frame callbacks
\* ------------------------------------------------------------------------
RunTimer(w, t, result) ==
    CASE t.kind = "modalAnimateIn" -> Modals_openEnd(w, t.target, t.arg)
      [] t.kind = "modalAnimateOut" ->
            Modals_closeEnd([w EXCEPT !.modalStyle[t.target].display = "none"],
                            t.target, t.arg)
      [] t.kind = "modalTrapFocus" -> Focus(w, FirstFocusable[t.target])
      [] t.kind = "menuAnimateIn" -> MobileMenu_openEnd(w)
      [] t.kind = "menuAnimateOut" ->
            MobileMenu_closeEnd([w EXCEPT !.navMenuStyle.display = "none"])
      [] t.kind = "menuFocus" -> Focus(w, FirstNavLink)
      [] t.kind = "overlayRemove" ->
            IF w.overlay.id = t.arg
            THEN [w EXCEPT !.overlay = [id |-> 0, opacity |-> ""]] ELSE w
      [] t.kind = "menuResize" -> MobileMenu_checkMobileState(w)
      [] t.kind = "strategy" ->
            Forms_handleFormSubmitSettled(w, t.target, result)
      [] t.kind = "autoClose" -> Modals_close(w)
      [] t.kind = "hideMessage" ->
            [w EXCEPT !.formMessage[t.target].display = "none"]
      [] t.kind = "inputValidation" -> Forms_validateField(w, t.target, t.arg)
      [] t.kind = "demoCallStart" -> Vapi_simulateCallStart(w)
      [] t.kind = "demoMessage" -> Vapi_displayAssistantMessage(w)
      [] t.kind = "modulesRetry" -> Polling_initializeModules(w)
      [] t.kind = "reveal" -> ScrollEffects_animateElement(w, t.target)
      [] t.kind = "navThrottle" -> [w EXCEPT !.navState.inThrottle = FALSE]
      [] OTHER -> w

RunFrame(w, f) ==
    CASE f.kind = "modalAnimateIn" -> Modals_animateInFrame(w, f.target, f.arg)
      [] f.kind = "menuAnimateIn" -> MobileMenu_animateMenuInFrame(w)
      [] f.kind = "scrollEffects" -> ScrollEffects_updateScrollEffects(w)
      [] f.kind = "overlayFadeIn" ->
            IF w.overlay.id = f.arg
            THEN [w EXCEPT !.overlay.opacity = "1"] ELSE w
      [] OTHER -> w

\* all callbacks requested before a frame run in that frame, in order
RECURSIVE RunFrames(_, _)
RunFrames(w, fs) ==
    IF fs = <<>> THEN w ELSE RunFrames(RunFrame(w, Head(fs)), Tail(fs))

\* ------------------------------------------------------------------------
\* Initial state
\* ------------------------------------------------------------------------
InitDocument ==
    /\ modalState = [activeModal |-> Null, previousFocus |-> Null,
                     isAnimating |-> FALSE]
    /\ modalStyle = [m \in Modals |-> [display |-> "none", opacity |-> "",
                                       transform |-> "", transition |-> ""]]
    /\ modalAriaHidden = [m \in Modals |-> "true"]
    /\ innerWidth \in Widths
    /\ menuState = [isOpen |-> FALSE, isAnimating |-> FALSE,
                    isMobile |-> (innerWidth <= Breakpoint), touchStartX |-> 0]
    /\ appState = [isInitialized |-> (setup.failed = Null), isMobileMenuOpen |-> FALSE,
                   activeSection |-> "home"]
    /\ navMenuStyle = [display |-> "", transform |-> "", opacity |-> "",
                       transition |-> ""]
    /\ navMenuAriaHidden = "true"
    /\ hamburger = [active |-> FALSE, ariaExpanded |-> "false",
                    ariaLabel |-> "Toggle navigation menu"]
    /\ overlay = [id |-> 0, opacity |-> ""]
    /\ formsState = [submittingForms |-> {}]
    /\ fieldError = [f \in Forms |-> [field \in FormFields[f] |->
                        [class |-> FALSE, text |-> "", display |-> "",
                         ariaInvalid |-> "", ariaDescribedby |-> ""]]]
    /\ formMessage = [f \in Forms |->
                        [text |-> "", type |-> "", display |-> ""]]
    /\ formControls = [f \in Forms |->
                         [submitDisabled |-> FALSE, buttonText |-> ButtonLabel[f],
                          submittingClass |-> FALSE, inputsDisabled |-> FALSE]]
    /\ bodyOverflow = ""
    /\ activeElement \in PageFocusables
    /\ timers = <<>>
    /\ frames = <<>>
    /\ dispatched = <<>>
    /\ scrollY = 0
    /\ navState = [isScrolled |-> FALSE, activeSection |-> "home",
                   inThrottle |-> FALSE]
    /\ navLinks = [h \in NavHrefs |->
                      IF h = "#home"
                      THEN [active |-> TRUE, ariaCurrent |-> "page"]
                      ELSE [active |-> FALSE, ariaCurrent |-> ""]]
    /\ navbar = [scrolled |-> FALSE, background |-> "", boxShadow |-> ""]
    /\ scrollState = [isParallaxEnabled |-> innerWidth > ParallaxBreakpoint,
                      lastScrollY |-> 0, ticking |-> FALSE]
    /\ parallax = IF /\ "scrollEffects" \in setup.created
                     /\ innerWidth <= ParallaxBreakpoint
                  THEN [kind |-> "none", y |-> 0] ELSE [kind |-> "", y |-> 0]
    /\ called = <<>>
    /\ reveal = [el \in AnimateElements |->
                    IF "scrollEffects" \in setup.created
                    THEN [observed |-> TRUE, opacity |-> "0",
                          transform |-> "translateY(30px)", animated |-> FALSE,
                          scheduled |-> 0, runs |-> 0]
                    ELSE [observed |-> FALSE, opacity |-> "",
                          transform |-> "", animated |-> FALSE,
                          scheduled |-> 0, runs |-> 0]]
    /\ hist = [active |-> NoHist, pending |-> NoHist, submitted |-> Null,
               duplicates |-> [f \in Forms |-> 0]]
    /\ lastEvent = "load"

\* the page as loaded: every field holds its default value
Init ==
    /\ setup = App_setup(Null)
    /\ voice = Vapi_init(FALSE)
    /\ server = Server_start("none")
    /\ polling = Polling_init(AppModules)
    /\ InitDocument
    /\ fieldValue = [f \in Forms |-> [field \in FormFields[f] |-> EmptyValue]]

\* ------------------------------------------------------------------------
\* Macrotasks
\* ------------------------------------------------------------------------
\* click on a [data-modal] trigger: its own listener, then the document's
ClickModalTrigger ==
    \E id \in TriggerIds :
        Apply(MobileMenu_handleOutsideClick(
                  Modals_handleBackdropClick(Modals_open(World, id), FALSE),
                  TRUE), "clickTrigger")

\* click on a .modal-close / .close-modal button
ClickCloseButton ==
    /\ \E m \in Modals : modalStyle[m].display = "flex"
    /\ Apply(MobileMenu_handleOutsideClick(
                 Modals_handleBackdropClick(Modals_close(World), FALSE), TRUE),
             "clickClose")

\* click on the modal element itself or its backdrop
ClickBackdrop ==
    /\ \E m \in Modals : modalStyle[m].display = "flex"
    /\ Apply(MobileMenu_handleOutsideClick(
                 Modals_handleBackdropClick(World, TRUE), TRUE),
             "clickBackdrop")

KeyEscape ==
    Apply(MobileMenu_handleKeydown(Modals_handleKeydown(World, "Escape"),
                                   "Escape"), "keyEscape")

\* click on the hamburger: toggle(), then the document's click listeners
ClickHamburger ==
    LET w1 == IF Has(World, "mobileMenu") THEN MobileMenu_toggle(World)
              ELSE World
        w2 == IF Has(w1, "modals") THEN Modals_handleBackdropClick(w1, FALSE)
              ELSE w1
        w3 == IF Has(w2, "mobileMenu")
              THEN MobileMenu_handleOutsideClick(w2, FALSE) ELSE w2
    IN  Apply(w3, "clickHamburger")

\* click on the overlay: its own listener, then the document's
ClickOverlay ==
    /\ overlay.id # 0
    /\ Apply(MobileMenu_handleOutsideClick(
                 Modals_handleBackdropClick(MobileMenu_close(World, TRUE),
                                            FALSE), TRUE), "clickOverlay")

\* the window is resized to another width
Resize ==
    \E width \in Widths \ {innerWidth} :
        Apply(MobileMenu_handleResize(
                  ScrollEffects_handleResize(
                      [World EXCEPT !.innerWidth = width])),
              "resize")

\* the window is scrolled to another position: the scroll listeners of the
\* navigation and of the scroll effects, in the order they were added
Scroll ==
    \E y \in ScrollPositions \ {scrollY} :
        LET w0 == [World EXCEPT !.scrollY = y]
            w1 == IF Has(w0, "navigation")
                  THEN Navigation_throttledScrollSpy(
                           Navigation_updateActiveSection(
                               Navigation_handleNavbarScroll(w0)))
                  ELSE w0
            w2 == IF Has(w1, "scrollEffects")
                  THEN ScrollEffects_handleScroll(w1) ELSE w1
        IN  Apply(w2, "scroll")

\* click on a displayed nav link: the link's listeners of the navigation and
\* of the mobile menu, then the document's
ClickNavLink ==
    \E href \in NavHrefs :
        /\ innerWidth > Breakpoint \/ navMenuStyle.display = "flex"
        /\ LET w1 == Navigation_handleNavClick(World, href)
               w2 == IF w1.menuState.isMobile /\ w1.menuState.isOpen
                     THEN MobileMenu_close(w1, TRUE) ELSE w1
           IN  Apply(MobileMenu_handleOutsideClick(
                         Modals_handleBackdropClick(w2, FALSE), FALSE),
                     "clickNavLink")

\* a caller of the public API navigates to an element of the page
NavigateTo ==
    \E target \in NavSelectors :
        Apply(Navigation_navigateTo(World, target), "navigateTo")

\* a touch starts on the displayed nav menu
TouchStart ==
    \E x \in TouchXs :
        /\ navMenuStyle.display = "flex"
        /\ Apply(MobileMenu_handleTouchStart(World, x), "touchStart")

TouchMove ==
    \E x \in TouchXs :
        /\ navMenuStyle.display = "flex"
        /\ lastEvent \in {"touchStart", "touchMove"}
        /\ Apply(MobileMenu_handleTouchMove(World, x), "touchMove")

TouchEnd ==
    \E x \in TouchXs :
        /\ navMenuStyle.display = "flex"
        /\ lastEvent \in {"touchStart", "touchMove"}
        /\ Apply(MobileMenu_handleTouchEnd(World, x), "touchEnd")

\* the user moves the focus (Tab, click) to a visible focusable element
FocusMove ==
    \E e \in Focusables :
        /\ e # activeElement
        /\ IsVisible(World, e)
        /\ Apply(Focus(World, e), "focusMove")

\* a form is on screen when it is on the page or its modal is displayed
FormOnScreen(form) ==
    IF FormModal[form] = Null THEN TRUE
    ELSE modalStyle[FormModal[form]].display = "flex"

\* the user changes the value of an enabled field: the input event
TypeInto(F) ==
    \E form \in F : \E field \in FormFields[form] :
        \E value \in TypedValues[field] \ {fieldValue[form][field]} :
            /\ FormOnScreen(form)
            /\ ~formControls[form].inputsDisabled
            /\ Apply(Forms_handleInputValidation(
                         [World EXCEPT !.fieldValue[form][field] = value],
                         form, field), "input")

\* a field loses the focus: the blur event
Blur(F) ==
    \E form \in F : \E field \in FormFields[form] :
        /\ FormOnScreen(form)
        /\ Apply(Forms_handleBlurValidation(World, form, field), "blur")

\* a submit event reaches the form (submit button, Enter, requestSubmit)
Submit(F) ==
    \E form \in F :
        /\ FormOnScreen(form)
        /\ form \in formsState.submittingForms
              => hist.duplicates[form] < MaxDuplicates
        /\ Apply([Forms_handleFormSubmit(World, form) EXCEPT
                      !.hist.submitted = form,
                      !.hist.duplicates[form] =
                          IF form \in formsState.submittingForms
                          THEN @ + 1 ELSE @],
                 "submit")

\* the next timer fires, unless it has to wait for a requested frame
TimerFire ==
    /\ timers # <<>>
    /\ ~Head(timers).held
    /\ \E result \in (IF Head(timers).kind = "strategy"
                       THEN StrategyResults(Head(timers).target)
                       ELSE {NoResult}) :
          Apply(RunTimer([World EXCEPT !.timers = Tail(@)],
                         Head(timers), result), Head(timers).kind)

\* the next animation frame runs its callbacks
FrameFire ==
    /\ frames # <<>>
    /\ Apply(RunFrames([World EXCEPT !.frames = <<>>,
                                     !.timers = Release(timers)], frames),
             "frame")

NextModal ==
    \/ ClickModalTrigger
    \/ ClickCloseButton
    \/ ClickBackdrop
    \/ KeyEscape
    \/ FocusMove
    \/ TimerFire
    \/ FrameFire

\* the modal manager on a desktop viewport, the mobile menu never opened
InitModal == Init /\ innerWidth > Breakpoint

SpecModal == InitModal /\ [][NextModal]_vars

NextMenu ==
    \/ ClickHamburger
    \/ ClickOverlay
    \/ KeyEscape
    \/ Resize
    \/ TouchStart
    \/ TouchMove
    \/ TouchEnd
    \/ TimerFire
    \/ FrameFire

SpecMenu == Init /\ [][NextMenu]_vars

\* the batches of entries an intersection observer delivers: one entry for
\* each of some elements it observes, in any order
RECURSIVE EntryBatches(_)
EntryBatches(targets) ==
    {<<>>} \cup
    UNION {{<<[target |-> el, isIntersecting |-> b]>> \o rest :
               rest \in EntryBatches(targets \ {el}), b \in BOOLEAN} :
           el \in targets}

\* the intersection observer reports changes of the elements it observes
Intersect ==
    \E entries \in EntryBatches({el \in AnimateElements :
                                    reveal[el].observed}) \ {<<>>} :
        Apply(ScrollEffects_handleIntersection(World, entries), "intersect")

\* setup() with a controller whose constructor may throw
InitSetup ==
    /\ setup \in {App_setup(thrower) : thrower \in AppModules \cup {Null}}
    /\ voice = Vapi_init(FALSE)
    /\ server = Server_start("none")
    /\ polling = Polling_init(AppModules)
    /\ InitDocument
    /\ fieldValue = [f \in Forms |-> [field \in FormFields[f] |-> EmptyValue]]

NextSetup ==
    \/ Scroll
    \/ ClickHamburger
    \/ TimerFire
    \/ FrameFire

SpecSetup == InitSetup /\ [][NextSetup]_vars

\* click on the AI agent card of the hero section
ClickCallButton ==
    /\ voice.messages < MaxMessages
    /\ voice.starts < MaxStarts
    /\ Apply(Vapi_toggleCall(World), "clickCall")

\* the events of the Vapi client that the call in progress allows
ClientEvents ==
    CASE voice.client = "starting" -> {"call-start", "start-failed", "error"}
      [] voice.client = "inCall" ->
            {"call-end", "speech-start", "speech-end", "message", "error"}
      [] voice.client = "stopping" -> {"call-end", "error"}
      [] OTHER -> {}

\* the Vapi client reports an event of the call
VapiEvent ==
    \E event \in ClientEvents :
        CASE event = "call-start" ->
                Apply(Vapi_onCallStart([World EXCEPT !.voice.client = "inCall",
                                                     !.voice.starts = 0]),
                      event)
          [] event = "call-end" ->
                Apply(Vapi_onCallEnd([World EXCEPT !.voice.client = "idle"]),
                      event)
          [] event = "start-failed" -> Apply(Vapi_startCallFailed(World), event)
          [] event = "speech-start" -> Apply(Vapi_onSpeechStart(World), event)
          [] event = "speech-end" -> Apply(Vapi_onSpeechEnd(World), event)
          [] event = "message" ->
                /\ voice.messages < MaxMessages
                /\ Apply(Vapi_displayAssistantMessage(World), event)
          [] OTHER ->
                Apply(Vapi_onError([World EXCEPT !.voice.client = "idle",
                                                 !.voice.starts = 0]),
                      event)

\* the voice assistant with the Vapi client (live) or without it (demo)
InitVoice ==
    /\ setup = App_setup(Null)
    /\ voice \in {Vapi_init(hasClient) : hasClient \in BOOLEAN}
    /\ server = Server_start("none")
    /\ polling = Polling_init(AppModules)
    /\ InitDocument
    /\ fieldValue = [f \in Forms |-> [field \in FormFields[f] |-> EmptyValue]]

NextVoice ==
    \/ ClickCallButton
    \/ VapiEvent
    \/ TimerFire

SpecVoice == InitVoice /\ [][NextVoice]_vars

\* a client posts a body to /api/community-join
PostCommunityJoin ==
    \E formData \in JoinBodies :
        /\ Len(server.inflight) < MaxInflight
        /\ Apply([World EXCEPT !.server = Server_communityJoin(server, formData)],
                 "postCommunityJoin")

\* transporter.sendMail settles for the oldest request that awaits it
SendMailSettles ==
    /\ server.inflight # <<>>
    /\ \E sent \in BOOLEAN :
          Apply([World EXCEPT !.server = Server_communityJoinSettled(server, sent)],
                IF sent THEN "sendMailResolved" ELSE "sendMailRejected")

\* nodemailer.createTestAccount calls back
TestAccountSettles ==
    /\ server.account = "pending"
    /\ \E err \in BOOLEAN :
          Apply([World EXCEPT !.server = Server_testAccountCallback(server, err)],
                "testAccount")

\* the mail server, started under any mail configuration
InitServer ==
    /\ setup = App_setup(Null)
    /\ voice = Vapi_init(FALSE)
    /\ server \in {Server_start(env) : env \in MailEnvs}
    /\ polling = Polling_init(AppModules)
    /\ InitDocument
    /\ fieldValue = [f \in Forms |-> [field \in FormFields[f] |-> EmptyValue]]

NextServer ==
    \/ PostCommunityJoin
    \/ SendMailSettles
    \/ TestAccountSettles

SpecServer == InitServer /\ [][NextServer]_vars

\* navigation with the mobile menu
NextNavigate ==
    \/ NavigateTo
    \/ ClickNavLink
    \/ ClickHamburger
    \/ TimerFire
    \/ FrameFire

SpecNavigate == Init /\ [][NextNavigate]_vars

\* the reveal animations of the scroll effects
NextReveal ==
    \/ Intersect
    \/ TimerFire

SpecReveal == Init /\ [][NextReveal]_vars

\* scrolling, navigation and resizing
NextNavigation ==
    \/ Scroll
    \/ ClickNavLink
    \/ NavigateTo
    \/ Resize
    \/ TimerFire
    \/ FrameFire

SpecNavigation == Init /\ [][NextNavigation]_vars

\* the form pipeline on a form of the page itself
\* the consultation form has a specification of its own
ConsultationForms == {"consultation-form"}
PageForms == {f \in Forms \ ConsultationForms : FormModal[f] = Null}
TypeIntoPageForm == TypeInto(PageForms)
BlurPageForm == Blur(PageForms)
SubmitPageForm == Submit(PageForms)

NextForms ==
    \/ TypeIntoPageForm
    \/ BlurPageForm
    \/ SubmitPageForm
    \/ TimerFire

SpecForms == InitModal /\ [][NextForms]_vars

\* the form pipeline on a form that lives in a modal, with that modal
ModalForms == {f \in Forms : FormModal[f] # Null}
SubmitModalForm == Submit(ModalForms)

NextFormModal ==
    \/ ClickModalTrigger
    \/ KeyEscape
    \/ SubmitModalForm
    \/ TimerFire
    \/ FrameFire

\* the consultation form as the user filled it in
ConsultationValues ==
    {[f \in Forms |->
        IF f \in ConsultationForms
        THEN [name |-> n, email |-> e, phone |-> p, message |-> m]
        ELSE [field \in FormFields[f] |-> EmptyValue]] :
     n \in {EmptyValue, GoodName}, e \in {BadEmail, GoodEmail},
     p \in TypedValues.phone, m \in {ShortMessage, GoodMessage}}

InitConsultation ==
    /\ setup = App_setup(Null)
    /\ voice = Vapi_init(FALSE)
    /\ server = Server_start("none")
    /\ polling = Polling_init(AppModules)
    /\ InitDocument
    /\ fieldValue \in ConsultationValues

SubmitConsultationForm == Submit(ConsultationForms)
BlurConsultationForm == Blur(ConsultationForms)

NextConsultation ==
    \/ SubmitConsultationForm
    \/ BlurConsultationForm
    \/ TimerFire

SpecConsultation == InitConsultation /\ [][NextConsultation]_vars

\* DOMContentLoaded (or the constructor, when the document is parsed) runs
\* setup() of the polling controller
DomContentLoaded ==
    /\ ~polling.started
    /\ Apply(Polling_setup(World), "DOMContentLoaded")

\* a module script runs and assigns its class to window
ScriptLoads ==
    \E module \in AppModules \ polling.loaded :
        Apply([World EXCEPT !.polling.loaded = @ \cup {module}], "scriptLoad")

\* the page with every order of module scripts and controller start
InitPolling ==
    /\ setup = App_setup(Null)
    /\ voice = Vapi_init(FALSE)
    /\ server = Server_start("none")
    /\ polling \in {Polling_init(loaded) : loaded \in SUBSET AppModules}
    /\ InitDocument
    /\ fieldValue = [f \in Forms |-> [field \in FormFields[f] |-> EmptyValue]]

NextPolling ==
    \/ DomContentLoaded
    \/ ScriptLoads
    \/ TimerFire

SpecPolling == InitPolling /\ [][NextPolling]_vars

\* the page as reloaded: the browser restores the values the fields of the
\* modal's form held, without an input event
RestoredValues ==
    {[f \in Forms |->
        IF f \in ModalForms THEN [name |-> n, email |-> e]
        ELSE [field \in FormFields[f] |-> EmptyValue]] :
     n \in TypedValues.name, e \in TypedValues.email}

InitFormModal ==
    /\ setup = App_setup(Null)
    /\ voice = Vapi_init(FALSE)
    /\ server = Server_start("none")
    /\ polling = Polling_init(AppModules)
    /\ InitDocument
    /\ innerWidth > Breakpoint
    /\ fieldValue \in RestoredValues

SpecFormModal == InitFormModal /\ [][NextFormModal]_vars

\* modal manager and mobile menu together: they share the body scroll lock
\* on a mobile-width viewport
InitPage == Init /\ innerWidth <= Breakpoint

NextPage ==
    \/ ClickModalTrigger
    \/ ClickCloseButton
    \/ KeyEscape
    \/ ClickHamburger
    \/ ClickOverlay
    \/ TimerFire
    \/ FrameFire

SpecPage == InitPage /\ [][NextPage]_vars

\* no timer and no animation frame is pending
AtRest == timers = <<>> /\ frames = <<>>

\* the page used one step at a time: the user acts when the page is at rest
NextSerial ==
    \/ AtRest /\ ClickModalTrigger
    \/ AtRest /\ ClickCloseButton
    \/ AtRest /\ KeyEscape
    \/ AtRest /\ ClickHamburger
    \/ AtRest /\ ClickOverlay
    \/ TimerFire
    \/ FrameFire

\* fair scheduling: a timer whose turn has come fires and a requested
\* animation frame runs
FairPage ==
    InitPage /\ [][NextSerial]_vars /\ WF_vars(TimerFire) /\ WF_vars(FrameFire)

\* ------------------------------------------------------------------------
\* Properties of the modal manager
\* ------------------------------------------------------------------------
ModalClosedIn(d) == \E i \in 1..Len(d) : d[i].type = "modalClosed"
ModalEventIn(d) ==
    \E i \in 1..Len(d) : d[i].type \in {"modalOpened", "modalClosed"}
ModalTimers(ts) ==
    {i \in 1..Len(ts) : ts[i].kind \in {"modalAnimateIn", "modalAnimateOut"}}
ModalFrames(fs) == {i \in 1..Len(fs) : fs[i].kind = "modalAnimateIn"}

\* C1: at most one modal is marked aria-hidden="false" at any time, and a
\* modal is displayed or marked aria-hidden="false" only when it is the
\* active modal and every other modal is hidden with aria-hidden="true":
\* the close of A has completed before B is shown.
C1_AtMostOneModalShown ==
    /\ Cardinality({m \in Modals : modalAriaHidden[m] = "false"}) <= 1
    /\ \A b \in Modals :
          (modalStyle[b].display = "flex" \/ modalAriaHidden[b] = "false")
          => /\ modalState.activeModal = b
             /\ \A a \in Modals \ {b} : /\ modalStyle[a].display = "none"
                                        /\ modalAriaHidden[a] = "true"

\* a different modal was closed by the step that began showing this one
C1_Witness ==
    \E a, b \in Modals :
        /\ a # b
        /\ dispatched = <<[type |-> "modalClosed", detail |-> a]>>
        /\ modalState.activeModal = b
        /\ modalStyle[b].display = "flex"
        /\ hist.active.switched

\* C2 as stated: every close restores the focus to the element that was
\* focused immediately before the matching open() was called.
C2_RestoresFocusAtCall ==
    [][ModalClosedIn(dispatched') => activeElement' = hist.active.atCall]_vars

\* C2 amended: every close restores the focus to the element that was
\* focused when open() recorded previousFocus, wherever the focus went in
\* between; that is the element focused at the call for an open() made with
\* no modal active, and previousFocus is cleared whenever no modal is active.
C2_RestoresRecordedFocus ==
    /\ [][ModalClosedIn(dispatched')
            => activeElement' = hist.active.atRecord]_vars
    /\ [](~hist.active.switched => hist.active.atRecord = hist.active.atCall)
    /\ [](modalState.activeModal = Null => modalState.previousFocus = Null)
    /\ [](modalState.activeModal # Null
            => modalState.previousFocus = hist.active.atRecord)

\* a modal opened over another one was closed after the focus had moved
C2_Witness ==
    /\ ModalClosedIn(dispatched)
    /\ modalState.activeModal = Null
    /\ hist.active.switched
    /\ hist.active.atCall # hist.active.atRecord
    /\ activeElement = hist.active.atRecord

ModalCallEvents == {"clickTrigger", "clickClose", "clickBackdrop", "keyEscape"}
ModalCloseEvents == {"clickClose", "clickBackdrop", "keyEscape"}

\* C3: open() and close() called while isAnimating, and close() with no
\* active modal, change nothing of the modal manager and dispatch no modal
\* event; at most one modal transition is in flight, exactly while
\* isAnimating.
C3_GuardedCallsAreNoOps ==
    /\ [][(/\ lastEvent' \in ModalCallEvents
           /\ \/ modalState.isAnimating
              \/ modalState.activeModal = Null /\ lastEvent' \in ModalCloseEvents)
          => /\ UNCHANGED <<modalState, modalStyle, modalAriaHidden,
                            bodyOverflow>>
             /\ ModalTimers(timers') = ModalTimers(timers)
             /\ Len(timers') = Len(timers)
             /\ ModalFrames(frames') = ModalFrames(frames)
             /\ ~ModalEventIn(dispatched')]_vars
    /\ [](Cardinality(ModalTimers(timers)) + Cardinality(ModalFrames(frames))
            = IF modalState.isAnimating THEN 1 ELSE 0)

\* a close was issued during an opening animation, which is still running
C3_Witness ==
    /\ lastEvent \in ModalCloseEvents
    /\ modalState.isAnimating
    /\ \E i \in 1..Len(timers) : timers[i].kind = "modalAnimateIn"
    /\ modalAriaHidden[modalState.activeModal] = "true"

\* ------------------------------------------------------------------------
\* Properties of the scroll lock and of the mobile menu
\* ------------------------------------------------------------------------
\* C4: the page scroll is locked in every state in which a modal is active
\* or the mobile menu is open.
C4_ScrollLockedWhileOpen ==
    (modalState.activeModal # Null \/ menuState.isOpen)
        => bodyOverflow = "hidden"

MenuTimers(ts) ==
    {i \in 1..Len(ts) : ts[i].kind \in {"menuAnimateIn", "menuAnimateOut"}}
MenuFrames(fs) == {i \in 1..Len(fs) : fs[i].kind = "menuAnimateIn"}
MenuEventIn(d) ==
    \E i \in 1..Len(d) : d[i].type \in {"mobileMenuOpened", "mobileMenuClosed"}
MenuCallEvents == {"clickHamburger", "clickOverlay", "keyEscape", "touchEnd"}

\* C6: on a mobile-width viewport a toggle()/open()/close() made while
\* isAnimating changes none of isOpen, isAnimating, isMobileMenuOpen, the
\* overlay and the ARIA attributes, so an opening menu completes as open;
\* open() is a no-op when open or not in mobile mode, close() when closed.
C6_MenuGuardedCallsAreNoOps ==
    /\ [][(/\ lastEvent' \in MenuCallEvents
           /\ innerWidth <= Breakpoint
           /\ menuState.isAnimating)
          => /\ UNCHANGED <<menuState, appState, overlay, hamburger,
                            navMenuAriaHidden, bodyOverflow>>
             /\ Len(timers') = Len(timers)
             /\ MenuTimers(timers') = MenuTimers(timers)
             /\ frames' = frames
             /\ ~MenuEventIn(dispatched')]_vars
    /\ [][(\E i \in 1..Len(dispatched') :
               dispatched'[i].type = "mobileMenuOpened")
          => /\ menuState.isOpen /\ menuState.isAnimating
             /\ menuState'.isOpen /\ ~menuState'.isAnimating
             /\ appState'.isMobileMenuOpen]_vars
    /\ [](LET w == World
          IN  /\ (w.menuState.isOpen \/ w.menuState.isAnimating
                    \/ ~w.menuState.isMobile) => MobileMenu_open(w) = w
              /\ (~w.menuState.isOpen \/ w.menuState.isAnimating)
                    => /\ MobileMenu_close(w, TRUE) = w
                       /\ MobileMenu_close(w, FALSE) = w)

\* the hamburger was clicked again while the menu was still sliding in
C6_Witness ==
    /\ lastEvent = "clickHamburger"
    /\ innerWidth <= Breakpoint
    /\ menuState.isAnimating /\ menuState.isOpen
    /\ \E i \in 1..Len(timers) : timers[i].kind = "menuAnimateIn"
    /\ hamburger.ariaExpanded = "false"

\* ------------------------------------------------------------------------
\* Properties of the form pipeline
\* ------------------------------------------------------------------------
\* the pending strategy calls of a form
StrategyCalls(ts, form) ==
    Len(SelectSeq(ts, LAMBDA t : t.kind = "strategy" /\ t.target = form))
AutoCloses(ts, modal) ==
    Len(SelectSeq(ts, LAMBDA t : t.kind = "autoClose" /\ t.target = modal))
\* what the strategy settled with, as the event of the settlement carries it
SettledWith(e) ==
    IF e.type = "formSuccess" THEN e.detail.result ELSE e.detail.error
ErrorBanner(message) ==
    [text |-> IF message # "" THEN message
              ELSE "An error occurred. Please try again.",
     type |-> "error", display |-> "block"]

\* C5: a form has one pending strategy call exactly while its id is in
\* submittingForms, never more; a submit event for a form whose id is in
\* submittingForms validates nothing, calls no strategy and changes nothing.
C5_OneStrategyCallPerSubmission ==
    [][\A form \in Forms :
          /\ StrategyCalls(timers', form)
                = IF form \in formsState'.submittingForms THEN 1 ELSE 0
          /\ (/\ lastEvent' = "submit"
              /\ hist'.submitted = form
              /\ form \in formsState.submittingForms)
             => /\ UNCHANGED <<formsState, fieldValue, fieldError,
                               formMessage, formControls, timers, frames>>
                /\ dispatched' = <<>>]_vars

\* two more submit events reached a form whose submission is in flight
C5_Witness ==
    \E form \in Forms :
        /\ lastEvent = "submit"
        /\ hist.submitted = form
        /\ hist.duplicates[form] >= 2
        /\ form \in formsState.submittingForms
        /\ StrategyCalls(timers, form) = 1

\* C7 as stated: when the auto-close delay of a successful submission
\* elapses, the delayed close() takes effect: the modal of the form is
\* closed or is being closed.
C7_DelayedCloseTakesEffect ==
    [][(timers # <<>> /\ lastEvent' = "autoClose")
       => LET m == Head(timers).target
          IN  \/ modalStyle'[m].display = "none"
              \/ /\ modalState'.activeModal = m
                 /\ \E i \in 1..Len(timers') :
                       /\ timers'[i].kind = "modalAnimateOut"
                       /\ timers'[i].target = m]_vars

\* C7 amended: a strategy that resolves with success for a form inside a
\* modal resets the form, shows the result's message as the success banner
\* and schedules one close() after the auto-close delay; when that delay
\* elapses, close() starts closing the modal that is active then if no
\* transition is running, and is dropped with no effect if a transition is
\* running or no modal is active.
C7_DelayedCloseIsGuarded ==
    /\ [][\A form \in Forms :
            (/\ timers # <<>> /\ lastEvent' = "strategy"
             /\ Head(timers).target = form
             /\ FormModal[form] # Null
             /\ Len(dispatched') = 1
             /\ SettledWith(dispatched'[1]).settled = "resolved"
             /\ SettledWith(dispatched'[1]).success)
            => /\ dispatched'[1].type = "formSuccess"
               /\ fieldValue'[form]
                     = [field \in FormFields[form] |-> EmptyValue]
               /\ formMessage'[form]
                     = [text |-> SettledWith(dispatched'[1]).message,
                        type |-> "success", display |-> "block"]
               /\ AutoCloses(timers', FormModal[form])
                     = AutoCloses(Tail(timers), FormModal[form]) + 1]_vars
    /\ [][(timers # <<>> /\ lastEvent' = "autoClose")
          => IF modalState.activeModal # Null /\ ~modalState.isAnimating
             THEN /\ modalState' = [modalState EXCEPT !.isAnimating = TRUE]
                  /\ \E i \in 1..Len(timers') :
                        /\ timers'[i].kind = "modalAnimateOut"
                        /\ timers'[i].target = modalState.activeModal
             ELSE /\ UNCHANGED <<modalState, modalStyle, modalAriaHidden,
                                 bodyOverflow, activeElement>>
                  /\ timers' = Tail(timers)]_vars

\* the delayed close() has started closing the modal of the submitted form
C7_Witness ==
    \E form \in Forms :
        /\ FormModal[form] # Null
        /\ lastEvent = "autoClose"
        /\ modalState.activeModal = FormModal[form]
        /\ modalState.isAnimating
        /\ \E i \in 1..Len(timers) :
              /\ timers[i].kind = "modalAnimateOut"
              /\ timers[i].target = FormModal[form]
        /\ formMessage[form].type = "success"
        /\ fieldValue[form] = [field \in FormFields[form] |-> EmptyValue]

C10_InvalidSubmitIsAborted ==
    [][\A form \in Forms :
          (/\ lastEvent' = "submit"
           /\ hist'.submitted = form
           /\ form \notin formsState.submittingForms
           /\ ~Forms_formIsValid(World, form))
          => /\ formMessage'[form]
                   = [text |-> "Please correct the errors below",
                      type |-> "error", display |-> "block"]
             /\ StrategyCalls(timers', form) = 0
             /\ UNCHANGED <<formsState, formControls, fieldValue>>
             /\ ~formControls'[form].submitDisabled
             /\ dispatched' = <<>>]_vars

\* an invalid form was submitted: banner and field error, nothing in flight
C10_Witness ==
    \E form \in Forms :
        /\ lastEvent = "submit"
        /\ hist.submitted = form
        /\ ~Forms_formIsValid(World, form)
        /\ formMessage[form].text = "Please correct the errors below"
        /\ formMessage[form].display = "block"
        /\ \E field \in FormFields[form] : fieldError[form][field].class
        /\ StrategyCalls(timers, form) = 0
        /\ formsState.submittingForms = {}

C12_ButtonTextRoundTrip ==
    \A form \in Forms :
        form \notin formsState.submittingForms
            => formControls[form].buttonText = ButtonLabel[form]

\* validateField applied to a field holding the value
ValidatedWith(form, field, value) ==
    Forms_validateField([World EXCEPT !.fieldValue[form][field] = value],
                        form, field)

\* C13: for every field, value and state of its error node, validateField
\* returns true exactly when every rule of the list passes; then the error
\* class is removed, a shown error node is hidden, aria-invalid is "false"
\* and aria-describedby is removed; otherwise it shows the message of the
\* first rule of the list that fails, with aria-invalid="true". For
\* required,email "not-an-email" gives 'Please enter a valid email address'
\* and "a@b.co" passes.
C13_FirstFailingRuleWins ==
    /\ \A form \in Forms : \A field \in FormFields[form] :
          \A value \in TypedValues[field] :
            LET rules == ValidateAttr[form][field]
                before == fieldError[form][field]
                after == ValidatedWith(form, field, value).fieldError[form][field]
                passes == \A i \in 1..Len(rules) : RuleIsValid(rules[i], value)
            IN  /\ Forms_fieldIsValid(
                       [World EXCEPT !.fieldValue[form][field] = value],
                       form, field) = passes
                /\ passes
                      => /\ ~after.class
                         /\ after.display # "block"
                         /\ before.display # "" => after.display = "none"
                         /\ after.ariaInvalid = "false"
                         /\ after.ariaDescribedby = ""
                /\ ~passes
                      => \E i \in 1..Len(rules) :
                            /\ ~RuleIsValid(rules[i], value)
                            /\ \A j \in 1..(i - 1) : RuleIsValid(rules[j], value)
                            /\ after.class
                            /\ after.text = RuleMessage(rules[i])
                            /\ after.display = "block"
                            /\ after.ariaInvalid = "true"
    /\ ValidatedWith("newsletter-form", "email", BadEmail)
          .fieldError["newsletter-form"].email.text
            = "Please enter a valid email address"
    /\ ValidatedWith("newsletter-form", "email", EmptyValue)
          .fieldError["newsletter-form"].email.text = "This field is required"
    /\ Forms_fieldIsValid(
           [World EXCEPT !.fieldValue["newsletter-form"].email = GoodEmail],
           "newsletter-form", "email")

\* a corrected email was validated: the error node shown earlier is hidden
C13_Witness ==
    /\ lastEvent \in {"blur", "inputValidation"}
    /\ fieldValue["newsletter-form"].email = GoodEmail
    /\ fieldError["newsletter-form"].email.text
          = "Please enter a valid email address"
    /\ fieldError["newsletter-form"].email.display = "none"
    /\ fieldError["newsletter-form"].email.ariaInvalid = "false"
    /\ ~fieldError["newsletter-form"].email.class

\* ------------------------------------------------------------------------
\* Navigation and scroll effects
\* ------------------------------------------------------------------------
\* the band [offsetTop, offsetTop + offsetHeight) of a section holds a position
InBand(section, pos) ==
    /\ pos >= OffsetTop[section]
    /\ pos < OffsetTop[section] + OffsetHeight[section]

\* the position the scroll spy probes
ScrollProbe == scrollY + SectionOffset + ProbePadding

\* C14 as stated: after a scroll event that leaves scrollY strictly inside
\* the band of a section, activeSection is the id of that section.
C14_ActiveSectionIsScrollBand ==
    lastEvent = "scroll" =>
        \A section \in SectionIds :
            scrollY > OffsetTop[section] /\ InBand(section, scrollY)
                => navState.activeSection = section

\* C14 amended: after a scroll event activeSection is the id of the last
\* section, in document order, whose band holds the probe position
\* scrollY + sectionOffset + 50, and "home" when no band holds it.
C14_ActiveSectionIsProbeBand ==
    lastEvent = "scroll" =>
        LET hits == {i \in 1..Len(Sections) : InBand(Sections[i], ScrollProbe)}
        IN  IF hits = {} THEN navState.activeSection = "home"
            ELSE \E i \in hits :
                    /\ navState.activeSection = Sections[i]
                    /\ \A j \in hits : j <= i

C14_Witness ==
    /\ lastEvent = "scroll"
    /\ scrollY = 500
    /\ InBand("home", scrollY)
    /\ navState.activeSection = "services"

\* the nav links that carry the active class and aria-current="page"
ActiveLinks ==
    {h \in NavHrefs : navLinks[h].active /\ navLinks[h].ariaCurrent = "page"}

\* C15: after any sequence of scroll events, nav link clicks and navigateTo
\* calls, exactly one nav link carries the active class and
\* aria-current="page".
C15_ExactlyOneActiveLink == Cardinality(ActiveLinks) = 1

\* setActiveNavLink, the only writer of aria-current, has run
SetActiveNavLinkHasRun == \A h \in NavHrefs : navLinks[h].ariaCurrent # ""

\* C16: once setActiveNavLink has run, every nav link has the active class
\* exactly when its aria-current is "page", and a step that changes the
\* class of a link writes its aria-current with it.
C16_ClassAndAriaCurrentAgree ==
    /\ [](SetActiveNavLinkHasRun =>
             \A h \in NavHrefs :
                 navLinks[h].active <=> navLinks[h].ariaCurrent = "page")
    /\ [][\A h \in NavHrefs :
             navLinks'[h].active # navLinks[h].active =>
                 navLinks'[h].ariaCurrent =
                     IF navLinks'[h].active THEN "page" ELSE "false"]_vars

C16_Witness ==
    /\ lastEvent = "clickNavLink"
    /\ SetActiveNavLinkHasRun
    /\ navLinks["#about"] = [active |-> TRUE, ariaCurrent |-> "page"]
    /\ navLinks["#home"] = [active |-> FALSE, ariaCurrent |-> "false"]

\* how many times a step ran the computation named
Runs(log, name) == Cardinality({i \in 1..Len(log) : log[i] = name})

\* C17: updateActiveSection is leading-edge throttled: a scroll event runs it
\* once when no 100ms interval is open, and not at all while one is open.
C17_ScrollSpyIsThrottled ==
    [][lastEvent' = "scroll" =>
          Runs(called', "updateActiveSection") =
              IF navState.inThrottle THEN 0 ELSE 1]_vars

\* C18: when the debounced resize check finds the viewport wider than the
\* breakpoint while the mobile menu is open, in whatever phase of its
\* transition, the menu is closed right after the check: isOpen and
\* app.state.isMobileMenuOpen are false.
C18_DesktopResizeForceCloses ==
    [][(/\ lastEvent' = "menuResize"
        /\ innerWidth > Breakpoint
        /\ menuState.isOpen)
          => ~menuState'.isOpen /\ ~appState'.isMobileMenuOpen]_vars

\* the pending animation frames of the scroll effects
ScrollFrames ==
    Cardinality({i \in 1..Len(frames) : frames[i].kind = "scrollEffects"})

\* the transform of the parallax element for a scroll position
ParallaxFor(y) == [kind |-> "translate3d", y |-> 0 - (y \div ParallaxDivisor)]

\* every scroll event leaves exactly one frame pending and records scrollY
ScrollSchedulesOneFrame ==
    [][lastEvent' = "scroll" =>
          /\ ScrollFrames' = 1
          /\ scrollState'.ticking
          /\ scrollState'.lastScrollY = scrollY']_vars

\* C19 as stated: at most one scroll-effects frame is pending at any time;
\* the frame applies the parallax for the most recent scrollY and clears
\* ticking; the next scroll event schedules exactly one new frame.
C19_FrameAppliesParallax ==
    /\ [](ScrollFrames <= 1 /\ (scrollState.ticking <=> ScrollFrames = 1))
    /\ [][lastEvent' = "frame" /\ ScrollFrames = 1 =>
             /\ parallax' = ParallaxFor(scrollY)
             /\ ~scrollState'.ticking
             /\ ScrollFrames' = 0]_vars
    /\ ScrollSchedulesOneFrame

\* C19 amended: the same, but the frame applies the parallax only while
\* parallax is enabled; while it is disabled the frame leaves the transform
\* alone and only clears ticking.
C19_FrameAppliesParallaxIfEnabled ==
    /\ [](ScrollFrames <= 1 /\ (scrollState.ticking <=> ScrollFrames = 1))
    /\ [][lastEvent' = "frame" /\ ScrollFrames = 1 =>
             /\ parallax' = IF scrollState.isParallaxEnabled
                            THEN ParallaxFor(scrollY) ELSE parallax
             /\ ~scrollState'.ticking
             /\ ScrollFrames' = 0]_vars
    /\ ScrollSchedulesOneFrame

C19_Witness ==
    /\ lastEvent = "frame"
    /\ scrollY = 1700
    /\ Runs(called, "updateParallax") = 1
    /\ parallax = ParallaxFor(1700)
    /\ ~scrollState.ticking
    /\ ScrollFrames = 0

\* C20: after handleResize has seen a width of at most 768px the transform
\* of the parallax element is 'none' and parallax is disabled, through every
\* scroll event and animation frame, until a resize to a wider viewport.
C20_NoParallaxOnMobile ==
    /\ [](innerWidth <= ParallaxBreakpoint =>
             parallax.kind = "none" /\ ~scrollState.isParallaxEnabled)
    /\ [][innerWidth <= ParallaxBreakpoint /\ innerWidth' = innerWidth =>
             parallax' = parallax]_vars

\* a frame requested at desktop width is still pending after the resize
C20_Witness ==
    /\ lastEvent = "resize"
    /\ innerWidth <= ParallaxBreakpoint
    /\ ScrollFrames = 1
    /\ scrollState.lastScrollY > 0
    /\ parallax.kind = "none"

\* ------------------------------------------------------------------------
\* Reveal animations
\* ------------------------------------------------------------------------
\* the pending animateElement calls for an element
RevealTimers(el) ==
    Cardinality({i \in 1..Len(timers) :
                    timers[i].kind = "reveal" /\ timers[i].target = el})

\* the elementAnimated events the last step dispatched for an element
AnimatedEvents(el) ==
    Cardinality({i \in 1..Len(dispatched) :
                    /\ dispatched[i].type = "elementAnimated"
                    /\ dispatched[i].detail.element = el})

\* C21: every observed reveal element is animated at most once: its first
\* intersecting entry ends its observation and schedules exactly one
\* animateElement call; nothing later schedules another call or dispatches
\* another elementAnimated event for it.
C21_RevealedAtMostOnce ==
    /\ [](\A el \in AnimateElements :
             /\ reveal[el].scheduled <= 1
             /\ reveal[el].runs <= 1
             /\ reveal[el].observed <=> reveal[el].scheduled = 0
             /\ reveal[el].scheduled = reveal[el].runs + RevealTimers(el)
             /\ AnimatedEvents(el) <= 1
             /\ reveal[el].animated <=> reveal[el].runs = 1)
    /\ [][\A el \in AnimateElements :
             AnimatedEvents(el)' = reveal'[el].runs - reveal[el].runs]_vars

C21_Witness ==
    /\ lastEvent = "intersect"
    /\ reveal["stat-card"].runs = 1
    /\ reveal["stat-card"].animated
    /\ ~reveal["stat-card"].observed
    /\ \E el \in AnimateElements : reveal[el].observed

\* C22: the navbar's scrolled appearance is edge-triggered: a scroll event
\* writes the navbar styles exactly when (scrollY > 50) differs from
\* state.isScrolled, a scroll event that stays on the same side of the
\* threshold writes nothing, and after every scroll event state.isScrolled
\* equals (scrollY > 50).
C22_NavbarIsEdgeTriggered ==
    /\ [][lastEvent' = "scroll" =>
             /\ navState'.isScrolled = (scrollY' > NavbarScrollThreshold)
             /\ navbar'.scrolled = navState'.isScrolled
             /\ Runs(called', "updateNavbarAppearance") =
                    IF (scrollY' > NavbarScrollThreshold) # navState.isScrolled
                    THEN 1 ELSE 0
             /\ (scrollY' > NavbarScrollThreshold) = navState.isScrolled
                    => navbar' = navbar]_vars
    /\ [][lastEvent' # "scroll" =>
             /\ navbar' = navbar
             /\ Runs(called', "updateNavbarAppearance") = 0]_vars

\* a scroll event above the threshold after the navbar became scrolled
C22_Witness ==
    /\ lastEvent = "scroll"
    /\ scrollY = 700
    /\ navState.isScrolled
    /\ navbar.boxShadow = "0 4px 20px rgba(0, 0, 0, 0.3)"
    /\ Runs(called, "updateNavbarAppearance") = 0

\* ------------------------------------------------------------------------
\* Application setup
\* ------------------------------------------------------------------------
\* C23: no shared fate between controllers: when the constructor of one
\* controller throws, every other controller is still created, and a
\* controller that was created answers its events.
C23_NoSharedFate ==
    /\ [](setup.failed # Null => setup.created = AppModules \ {setup.failed})
    /\ [][(/\ lastEvent' = "clickHamburger"
           /\ setup.failed \notin {Null, "mobileMenu"}
           /\ ~menuState.isOpen /\ ~menuState.isAnimating)
             => menuState'.isOpen]_vars

\* ------------------------------------------------------------------------
\* Voice assistant
\* ------------------------------------------------------------------------
\* the visual effect of a step: the states it wrote, the state it left and
\* isCallActive
Visual(w) == <<w.called, w.voice.state, w.voice.isCallActive>>

\* C24: in demo mode a start-call followed by an end-call drives the card
\* through the visual states the live client's events produce: connecting
\* on the start-call, what the call-start listener writes when the simulated
\* call starts, what the call-end listener writes on the end-call; and
\* isCallActive is true exactly between simulated call start and call end.
C24_DemoMatchesLive ==
    /\ [][~voice.hasClient /\ lastEvent' = "clickCall" /\ ~voice.isCallActive
             => /\ called' = <<"connecting">>
                /\ called' = Vapi_startCall(
                                 [World EXCEPT !.voice.hasClient = TRUE]).called
                /\ ~voice'.isCallActive]_vars
    /\ [][~voice.hasClient /\ lastEvent' = "demoCallStart"
             => /\ <<called', voice'.state, voice'.isCallActive>> =
                       Visual(Vapi_onCallStart(World))
                /\ called' = <<"active", "connected">>
                /\ voice'.isCallActive]_vars
    /\ [][~voice.hasClient /\ lastEvent' = "clickCall" /\ voice.isCallActive
             => /\ <<called', voice'.state, voice'.isCallActive>> =
                       Visual(Vapi_onCallEnd(World))
                /\ called' = <<"inactive", "disconnected">>
                /\ ~voice'.isCallActive]_vars
    /\ [][~voice.hasClient /\ lastEvent' \notin {"clickCall", "demoCallStart"}
             => voice'.isCallActive = voice.isCallActive]_vars
    /\ [](~voice.hasClient =>
             (voice.isCallActive <=> voice.state = "connected"))

\* the demo cycle has run: the simulated call was started and ended
C24_Witness ==
    /\ ~voice.hasClient
    /\ lastEvent = "clickCall"
    /\ voice.state = "disconnected"
    /\ called = <<"inactive", "disconnected">>
    /\ ~voice.isCallActive
    /\ ~voice.transcriptHidden

\* ------------------------------------------------------------------------
\* Mail server
\* ------------------------------------------------------------------------
\* the body passes both checks of the endpoint
JoinBodyValid(body) ==
    /\ body.name \notin {Absent, EmptyValue}
    /\ body.email \notin {Absent, EmptyValue}
    /\ body.aiExperience \notin {Absent, EmptyValue}
    /\ body.email = GoodEmail

\* C25: POST /api/community-join answers 400 with success:false and a
\* message, and starts no sendMail, whenever name, email or aiExperience is
\* missing or the email fails the pattern; only a body that passes both
\* checks reaches sendMail, and only a completed sendMail answers
\* success:true.
C25_InvalidBodyRejected ==
    /\ [][lastEvent' = "postCommunityJoin" /\ ~JoinBodyValid(server'.request)
             => /\ server'.response.status = 400
                /\ ~server'.response.success
                /\ server'.response.message # ""
                /\ server'.inflight = server.inflight]_vars
    /\ [](\A i \in 1..Len(server.inflight) : JoinBodyValid(server.inflight[i]))
    /\ [](server.response.success =>
             /\ lastEvent = "sendMailResolved"
             /\ JoinBodyValid(server.request))

C25_Witness ==
    /\ lastEvent = "postCommunityJoin"
    /\ server.request.email = BadEmail
    /\ server.request.name = GoodName
    /\ server.request.aiExperience # Absent
    /\ server.transporter # "none"
    /\ server.response.status = 400
    /\ server.response.message = "Please provide a valid email address."

\* C26: without Gmail or SMTP credentials the server runs in test mode: a
\* valid community-join request received at any time after the start is
\* handed to sendMail, never answered 'Email service is not configured'.
C26_TestModeAcceptsValidJoin ==
    [][(/\ lastEvent' = "postCommunityJoin"
        /\ server.account # "none"
        /\ JoinBodyValid(server'.request))
          => /\ server'.response.status # 500
             /\ server'.inflight = Append(server.inflight, server'.request)]_vars

\* ------------------------------------------------------------------------
\* Completion of the transitions
\* ------------------------------------------------------------------------
\* open() of a modal passed its guard and awaits animateIn
ModalOpening(m) ==
    /\ modalState.isAnimating
    /\ modalState.activeModal = m
    /\ \/ \E i \in 1..Len(frames) :
             frames[i].kind = "modalAnimateIn" /\ frames[i].target = m
       \/ \E i \in 1..Len(timers) :
             timers[i].kind = "modalAnimateIn" /\ timers[i].target = m

\* close() passed its guard and awaits animateOut; next is the modal that
\* the open() awaiting this close will show, or Null
ModalClosing(next) ==
    /\ modalState.isAnimating
    /\ \E i \in 1..Len(timers) :
          timers[i].kind = "modalAnimateOut" /\ timers[i].arg = next

ModalOpen(m) ==
    /\ ~modalState.isAnimating
    /\ modalState.activeModal = m
    /\ modalAriaHidden[m] = "false"

MenuOpening == menuState.isAnimating /\ menuState.isOpen
MenuClosing == menuState.isAnimating /\ ~menuState.isOpen

ProbeSection ==
    IF \E section \in SectionIds : InBand(section, ScrollProbe)
    THEN CHOOSE section \in SectionIds : InBand(section, ScrollProbe)
    ELSE "home"

\* C28: after updateActiveSection has run, state.activeSection is the id of
\* the section whose band holds the probe scrollY + sectionOffset + 50, or
\* "home" when no band holds it, and setActiveNavLink was invoked only if
\* that id differs from the previous state.activeSection.
C28_ScrollSpySelectsProbeSection ==
    [][Runs(called', "updateActiveSection") > 0 =>
          /\ navState'.activeSection = ProbeSection'
          /\ Runs(called', "setActiveNavLink") =
                 IF ProbeSection' # navState.activeSection THEN 1 ELSE 0
          /\ ProbeSection' # navState.activeSection =>
                 navLinks'[SectionHref[ProbeSection']].active]_vars

\* the probe has left the last section: the spy falls back to home
C28_Witness ==
    /\ lastEvent = "scroll"
    /\ scrollY = 1700
    /\ \A section \in SectionIds : ~InBand(section, ScrollProbe)
    /\ navState.activeSection = "home"
    /\ Runs(called, "setActiveNavLink") = 1
    /\ navLinks["#home"].active

\* the DOM and the state of the mobile menu
MenuView ==
    <<menuState, appState, navMenuStyle, navMenuAriaHidden, hamburger, overlay,
      bodyOverflow, activeElement, timers, frames>>

\* C29: navigateTo(sectionId) for an existing section marks, within the
\* call, the nav link whose href is sectionId as the only active one and
\* calls close() of the mobile menu; for a selector that matches no element
\* it starts no scroll, changes no link and leaves the mobile menu alone.
C29_NavigateToMarksLinkAndClosesMenu ==
    [][lastEvent' = "navigateTo" =>
          LET sectionId == called'[1]
          IN  IF sectionId \in NavHrefs
              THEN /\ Runs(called', "scrollTo") = 1
                   /\ \A h \in NavHrefs :
                         navLinks'[h].active <=> h = sectionId
                   /\ navLinks'[sectionId].ariaCurrent = "page"
                   /\ IF menuState.isOpen /\ ~menuState.isAnimating
                      THEN ~menuState'.isOpen /\ menuState'.isAnimating
                      ELSE MenuView' = MenuView
              ELSE sectionId \notin NavTargets =>
                      /\ called' = <<sectionId>>
                      /\ navLinks' = navLinks
                      /\ MenuView' = MenuView]_vars

\* navigateTo closed the open menu and marked the link
C29_Witness ==
    /\ lastEvent = "navigateTo"
    /\ called[1] = "#about"
    /\ navLinks["#about"].active
    /\ ~navLinks["#home"].active
    /\ menuState.isAnimating
    /\ ~menuState.isOpen
    /\ scrollY = 0

\* C30: whenever the mobile menu is open and not animating, a click-to-close
\* overlay is in the document, also when the menu was opened again while
\* the removal of the previous overlay was still pending.
C30_OpenMenuHasOverlay ==
    (menuState.isOpen /\ ~menuState.isAnimating) => overlay.id # 0

\* the step completed a close() of the mobile menu
MenuClosedIn(events) ==
    \E i \in 1..Len(events) : events[i].type = "mobileMenuClosed"

\* C31: whenever the mobile menu is not animating, aria-expanded of the
\* hamburger equals isOpen and aria-hidden of the nav menu equals its
\* negation; every completed close(), animated or not, leaves
\* aria-expanded "false" and aria-hidden "true".
C31_AriaFollowsIsOpen ==
    /\ [](~menuState.isAnimating =>
             /\ hamburger.ariaExpanded
                    = (IF menuState.isOpen THEN "true" ELSE "false")
             /\ navMenuAriaHidden
                    = (IF menuState.isOpen THEN "false" ELSE "true"))
    /\ [][MenuClosedIn(dispatched') =>
             /\ hamburger'.ariaExpanded = "false"
             /\ navMenuAriaHidden' = "true"
             /\ ~menuState'.isAnimating]_vars

\* a close without animation (resize to desktop) has just completed
C31_Witness ==
    /\ MenuClosedIn(dispatched)
    /\ lastEvent = "menuResize"
    /\ ~menuState.isOpen
    /\ ~menuState.isAnimating
    /\ hamburger.ariaExpanded = "false"
    /\ navMenuAriaHidden = "true"
    /\ hamburger.ariaLabel = "Open navigation menu"

\* C32: after an 'error' event of the voice client the status indicator is
\* left in the 'error' visual state with the error text, and isCallActive
\* is false so that the next click starts a call.
C32_ErrorStaysVisible ==
    [][lastEvent' = "error" =>
          /\ voice'.state = "error"
          /\ voice'.text = "Error occurred"
          /\ ~voice'.isCallActive]_vars

\* C33: the delayed auto-close of a successful submission closes only the
\* modal that contains the submitted form; when that modal was closed and
\* another modal was opened before the timer fires, the other modal stays
\* open.
C33_AutoCloseLeavesOtherModal ==
    [][(/\ timers # <<>>
        /\ lastEvent' = "autoClose"
        /\ modalState.activeModal \in Modals \ {Head(timers).target})
       => /\ modalState' = modalState
          /\ modalStyle' = modalStyle]_vars

\* C34: the data object handed to the submission strategy holds the value
\* the user entered for every named, enabled field of the form as it was
\* when the submit event arrived; disabling the controls for the in-flight
\* period does not affect it.
C34_StrategyGetsEnteredValues ==
    [][\A form \in Forms :
          (/\ lastEvent' = "submit"
           /\ form \notin formsState.submittingForms
           /\ form \in formsState'.submittingForms)
          => \E i \in 1..Len(timers') :
                /\ timers'[i].kind = "strategy"
                /\ timers'[i].target = form
                /\ timers'[i].arg
                      = [field \in FormFields[form] |->
                            fieldValue[form][field]]]_vars

\* the pending auto-hide timers of the banner of a form
HideTimers(ts, form) ==
    Len(SelectSeq(ts, LAMBDA t : t.kind = "hideMessage" /\ t.target = form))

\* C35: a banner shown by showFormMessage stays visible for the whole
\* messageTimeout, also while the auto-hide timer of an earlier banner of
\* the same form is pending: a banner is hidden by its own timer only, the
\* timer of the last showFormMessage call for the form.
C35_BannerHiddenByOwnTimer ==
    [][(/\ timers # <<>>
        /\ lastEvent' = "hideMessage"
        /\ formMessage[Head(timers).target].display = "block"
        /\ formMessage'[Head(timers).target].display = "none")
       => HideTimers(Tail(timers), Head(timers).target) = 0]_vars

\* C36: after any sequence of scroll events and navigateTo calls the nav
\* link marked active is the one of the section getCurrentSection()
\* returns (state.activeSection), whenever some link is active, and a
\* scroll event corrects a marking that does not match the scroll position.
C36_ActiveLinkIsCurrentSection ==
    /\ [](\A h \in NavHrefs :
             navLinks[h].active => h = SectionHref[navState.activeSection])
    /\ [][lastEvent' = "scroll" =>
             \A h \in NavHrefs :
                navLinks'[h].active => h = SectionHref[ProbeSection']]_vars

\* C37: a field with a pattern rule only and no required rule (the phone
\* field of the consultation form, rule list 'phone') is valid when empty:
\* a consultation form with valid name, email and message and an empty
\* phone passes validateForm and is submitted.
C37_EmptyPhoneIsAccepted ==
    [][(/\ lastEvent' = "submit"
        /\ hist'.submitted = "consultation-form"
        /\ "consultation-form" \notin formsState.submittingForms
        /\ fieldValue["consultation-form"]
              = [name |-> GoodName, email |-> GoodEmail, phone |-> EmptyValue,
                 message |-> GoodMessage])
       => /\ "consultation-form" \in formsState'.submittingForms
          /\ ~fieldError'["consultation-form"].phone.class
          /\ formMessage'["consultation-form"].type # "error"]_vars

\* the call starts that have begun and not yet taken effect: the pending
\* timers of the demo mode, the start() calls the client has not answered
DemoStarts(ts) == Len(SelectSeq(ts, LAMBDA t : t.kind = "demoCallStart"))

\* C38: at most one call start is in flight at a time: a click on the voice
\* button after startCall has begun and before the call-start event or the
\* simulated start has fired issues no second start, and after any sequence
\* of clicks isCallActive tells whether a call is running.
C38_OneStartInFlight ==
    /\ [](DemoStarts(timers) + voice.starts <= 1)
    /\ [][(lastEvent' = "clickCall" /\ DemoStarts(timers) + voice.starts > 0)
          => DemoStarts(timers') + voice'.starts
                = DemoStarts(timers) + voice.starts]_vars
    /\ [](voice.hasClient =>
             (voice.isCallActive <=> voice.client \in {"inCall", "stopping"}))

\* C39: in the controller that polls for the modules, state.isInitialized
\* is true only when all six controllers have been instantiated, and the
\* controllers are instantiated exactly once however many retries precede
\* the arrival of the modules.
C39_InitializedMeansAllModules ==
    /\ [](polling.isInitialized => polling.created = AppModules)
    /\ [](polling.instantiations <= 1)

====
